---- MODULE Spec2Model ----
\* A model of the hearth runtime: the store task that reduces hub events into
\* the shared device map, the watch channel it notifies, the store listener
\* that runs the flows on a change, the flow engine, and the scheduler task
\* that resumes flows after a sleep node.
EXTENDS Integers, Sequences, FiniteSets, TLC

\* ---------------------------------------------------------------------
\* Bounds
\* ---------------------------------------------------------------------

\* Number of events the hub adapters put on the event channel.
MaxEvents == 2

\* Capacity of the event channel (core.store_buffer_size of the configuration).
StoreBufferSize == 2

\* Width in bits of the words that stand for u64 and i64; i128 and f64 hold
\* every sum and every word of this width exactly.
IntBits == 8

\* Ticks between two datetimes of a cron schedule.
CronPeriod == 2

\* Number of datetimes of a cron schedule the clock goes through.
MaxDatetimes == 3

\* ---------------------------------------------------------------------
\* domain::Number, flow_engine::Value, PropertyValue
\* ---------------------------------------------------------------------

PositiveInt(v) == [variant |-> "PositiveInt", v |-> v]

NegativeInt(v) == [variant |-> "NegativeInt", v |-> v]

\* A float that holds a whole number.
Float(v) == [variant |-> "Float", v |-> v]

RECURSIVE Pow2(_)
Pow2(n) == IF n = 0 THEN 1 ELSE 2 * Pow2(n - 1)

\* u64::MAX, i64::MAX and i64::MIN
U64Max == Pow2(IntBits) - 1

I64Max == Pow2(IntBits - 1) - 1

I64Min == 0 - Pow2(IntBits - 1)

\* `v as u64` on an i64 and `v as i64` on a u64: the same bits read as the
\* other type.
AsU64(v) == IF v < 0 THEN v + Pow2(IntBits) ELSE v

AsI64(v) == IF v > I64Max THEN v - Pow2(IntBits) ELSE v

\* u64::saturating_add and i64::saturating_add
U64SaturatingAdd(a, b) == IF a + b > U64Max THEN U64Max ELSE a + b

I64SaturatingAdd(a, b) ==
    IF a + b > I64Max THEN I64Max ELSE IF a + b < I64Min THEN I64Min ELSE a + b

\* impl PartialEq for Number: equal within a variant, a float equals an
\* integer of the same value, a PositiveInt never equals a NegativeInt.
NumberEq(a, b) ==
    CASE a.variant = b.variant -> a.v = b.v
      [] a.variant = "Float" \/ b.variant = "Float" -> a.v = b.v
      [] OTHER -> FALSE

\* impl PartialOrd for Number on numbers that are not NaN: "Less", "Equal"
\* or "Greater".
NumberCmp(a, b) ==
    LET ord(x, y) == IF x < y THEN "Less" ELSE IF x = y THEN "Equal" ELSE "Greater"
    IN  CASE a.variant = b.variant -> ord(a.v, b.v)
          [] a.variant = "PositiveInt" /\ b.variant = "NegativeInt" ->
                IF b.v < 0 THEN "Greater" ELSE ord(a.v, AsU64(b.v))
          [] a.variant = "NegativeInt" /\ b.variant = "PositiveInt" ->
                IF a.v < 0 THEN "Less" ELSE ord(a.v, AsI64(b.v))
          [] OTHER -> ord(a.v, b.v)

\* impl Add for Number
NumberAdd(a, b) ==
    CASE a.variant = "PositiveInt" /\ b.variant = "PositiveInt" ->
            PositiveInt(U64SaturatingAdd(a.v, b.v))
      [] a.variant = "PositiveInt" /\ b.variant = "NegativeInt" ->
            IF a.v + b.v >= 0 THEN PositiveInt(U64SaturatingAdd(a.v, AsU64(b.v)))
            ELSE NegativeInt(a.v + b.v)
      [] a.variant = "NegativeInt" /\ b.variant = "PositiveInt" ->
            IF a.v + b.v >= 0 THEN PositiveInt(U64SaturatingAdd(b.v, AsU64(a.v)))
            ELSE NegativeInt(a.v + b.v)
      [] a.variant = "NegativeInt" /\ b.variant = "NegativeInt" ->
            NegativeInt(I64SaturatingAdd(a.v, b.v))
      [] OTHER -> Float(a.v + b.v)

BooleanValue(b) == [t |-> "Boolean", b |-> b, n |-> PositiveInt(0)]

NumberValue(n) == [t |-> "Number", b |-> FALSE, n |-> n]

NoneValue == [t |-> "None", b |-> FALSE, n |-> PositiveInt(0)]

\* #[derive(PartialEq)] on Value: same variant and equal payload.
ValueEq(x, y) ==
    /\ x.t = y.t
    /\ (x.t = "Boolean" => x.b = y.b)
    /\ (x.t = "Number" => NumberEq(x.n, y.n))

SetBooleanValue(b) == [type |-> "SetBooleanValue", b |-> b, n |-> PositiveInt(0)]

ToggleBooleanValue == [type |-> "ToggleBooleanValue", b |-> FALSE, n |-> PositiveInt(0)]

SetNumberValue(n) == [type |-> "SetNumberValue", b |-> FALSE, n |-> n]

\* ---------------------------------------------------------------------
\* Properties and devices
\* ---------------------------------------------------------------------

NoNumber == [some |-> FALSE, n |-> PositiveInt(0)]

SomeNumber(n) == [some |-> TRUE, n |-> n]

BooleanProperty(ptype, readonly, value) ==
    [kind |-> "Boolean", ptype |-> ptype, readonly |-> readonly, bvalue |-> value,
     nvalue |-> PositiveInt(0), minimum |-> NoNumber, maximum |-> NoNumber]

NumberProperty(ptype, readonly, value, minimum, maximum) ==
    [kind |-> "Number", ptype |-> ptype, readonly |-> readonly, bvalue |-> FALSE,
     nvalue |-> value, minimum |-> minimum, maximum |-> maximum]

\* The device ids that occur in the model; "ghost" is never discovered.
DeviceIds == {"lamp", "ghost", "desk"}

PropertyIds == {"on", "bri"}

\* A device as the Hue adapter discovers it: an On property and a Brightness
\* property with a range, tied to the Hue controller.
Lamp(on) ==
    [present |-> TRUE, id |-> "lamp", controller_id |-> "hue",
     properties |-> [p \in PropertyIds |->
        IF p = "on" THEN BooleanProperty("On", FALSE, on)
        ELSE NumberProperty("Brightness", FALSE, PositiveInt(1),
                            SomeNumber(PositiveInt(0)), SomeNumber(PositiveInt(2)))]]

\* A device tied to the given controller; "" stands for no controller.
Desk(controller_id) ==
    [present |-> TRUE, id |-> "desk", controller_id |-> controller_id,
     properties |-> [p \in PropertyIds |->
        IF p = "on" THEN BooleanProperty("On", FALSE, FALSE)
        ELSE NumberProperty("Brightness", FALSE, PositiveInt(1), NoNumber, NoNumber)]]

\* The slot of a device id that is not in the map.
NoDevice ==
    [present |-> FALSE, id |-> "", controller_id |-> "",
     properties |-> [p \in PropertyIds |-> BooleanProperty("On", FALSE, FALSE)]]

\* HashMap::new(): no device.
EmptyDeviceMap == [d \in DeviceIds |-> NoDevice]

HasDevice(devs, id) == id \in DeviceIds /\ devs[id].present

HasProperty(device, property_id) == property_id \in DOMAIN device.properties

\* ---------------------------------------------------------------------
\* Events
\* ---------------------------------------------------------------------

DiscoveredDevices(list) ==
    [type |-> "DiscoveredDevices", devices |-> list, device_id |-> "", property_id |-> "",
     b |-> FALSE, n |-> PositiveInt(0)]

BooleanPropertyChanged(device_id, property_id, value) ==
    [type |-> "BooleanPropertyChanged", devices |-> <<>>, device_id |-> device_id,
     property_id |-> property_id, b |-> value, n |-> PositiveInt(0)]

NumberPropertyChanged(device_id, property_id, value) ==
    [type |-> "NumberPropertyChanged", devices |-> <<>>, device_id |-> device_id,
     property_id |-> property_id, b |-> FALSE, n |-> value]

\* The events the hub adapters may send.
HubEvents ==
    { DiscoveredDevices(<<Lamp(TRUE)>>),
      DiscoveredDevices(<<Lamp(FALSE)>>),
      BooleanPropertyChanged("lamp", "on", TRUE),
      BooleanPropertyChanged("lamp", "on", FALSE),
      BooleanPropertyChanged("ghost", "on", TRUE),
      BooleanPropertyChanged("lamp", "nope", TRUE),
      BooleanPropertyChanged("lamp", "bri", TRUE),
      NumberPropertyChanged("lamp", "bri", PositiveInt(2)),
      NumberPropertyChanged("lamp", "bri", PositiveInt(3)) }

\* ---------------------------------------------------------------------
\* State
\* ---------------------------------------------------------------------

VARIABLES
    devices,      \* Store.devices: the map behind the Arc<RwLock<..>>
    eventQueue,   \* the mpsc event channel, oldest first
    arrived,      \* history: every event sent on the channel, in send order
    applied,      \* history: number of events Store::listen has taken
    notifier,     \* the watch channel of the store: its value and version
    watcher,      \* the store_listener task: its position, receiver and batch
    schedulerQueue, \* the mpsc channel of SchedulerCommands, oldest first
    scheduler,    \* the scheduler task: "running" or "returned"
    timers,       \* the subtasks spawned for ScheduleOnce, sleeping
    lastResume,   \* the execution run by the timer that fired last
    directory,    \* the flows directory of the configuration
    jobs,         \* the job loops spawned for Schedule, one per scheduled flow
    lastScheduled, \* the batch run by the job loop that woke last
    call,         \* the last direct call of a function of the engine
    clock         \* Utc::now() and Instant::now(), in ticks of a millisecond

vars == <<devices, eventQueue, arrived, applied, notifier, watcher, schedulerQueue,
          scheduler, timers, lastResume, directory, jobs, lastScheduled, call, clock>>

\* ---------------------------------------------------------------------
\* Store
\* ---------------------------------------------------------------------

\* The value the store puts on the watch channel is a clone of its Arc: a
\* handle on the one map the reducer mutates. A frozen snapshot is a copy.
LiveSnapshot == [live |-> TRUE, frozen |-> EmptyDeviceMap]

FrozenSnapshot(devs) == [live |-> FALSE, frozen |-> devs]

\* What a holder of a snapshot reads through it now.
SnapshotDevices(snapshot) == IF snapshot.live THEN devices ELSE snapshot.frozen

\* BooleanProperty::set_value
BooleanSetValue(property, value) ==
    IF property.readonly
    THEN [ok |-> FALSE, err |-> "ReadOnly", property |-> property]
    ELSE [ok |-> TRUE, err |-> "", property |-> [property EXCEPT !.bvalue = value]]

\* NumberProperty::set_value and the per-variant setters it dispatches to.
NumberSetValue(property, value) ==
    LET fail(e) == [ok |-> FALSE, err |-> e, property |-> property]
        min == property.minimum
        max == property.maximum
    IN  IF property.readonly THEN fail("ReadOnly")
        ELSE IF property.nvalue.variant # value.variant THEN fail("IncorrectValueType")
        ELSE IF min.some /\ min.n.variant = value.variant /\ value.v < min.n.v
             THEN fail("ValueTooSmall")
        ELSE IF max.some /\ max.n.variant = value.variant /\ value.v > max.n.v
             THEN fail("ValueTooLarge")
        ELSE [ok |-> TRUE, err |-> "", property |-> [property EXCEPT !.nvalue = value]]

\* Store::reduce_property_changed_event with T = kind and the setter of the
\* event: the device map after the call.
ReducePropertyChanged(devs, device_id, property_id, kind, event) ==
    IF ~HasDevice(devs, device_id) THEN devs
    ELSE IF ~HasProperty(devs[device_id], property_id) THEN devs
    ELSE LET property == devs[device_id].properties[property_id]
         IN  IF property.kind # kind THEN devs
             ELSE LET set == IF kind = "Boolean" THEN BooleanSetValue(property, event.b)
                             ELSE NumberSetValue(property, event.n)
                  IN  IF ~set.ok THEN devs
                      ELSE [devs EXCEPT ![device_id].properties[property_id] = set.property]

\* A reducer that applies the setter of the event before it looks at the
\* variant of the property.
ReducePropertyChangedEventUnchecked(devs, device_id, property_id, kind, event) ==
    LET failed(e) == [error |-> e, devices |-> devs]
    IN  IF ~HasDevice(devs, device_id) THEN failed("UnknownDevice")
        ELSE IF ~HasProperty(devs[device_id], property_id) THEN failed("UnknownProperty")
        ELSE LET property == devs[device_id].properties[property_id]
                 written == IF kind = "Boolean" THEN [property EXCEPT !.bvalue = event.b]
                            ELSE [property EXCEPT !.nvalue = event.n]
                 after == [devs EXCEPT ![device_id].properties[property_id] = written]
             IN  [error |-> IF property.kind # kind THEN "IncorrectPropertyType" ELSE "",
                  devices |-> after]

\* reduce_property_changed_event of property_changed_reducer.rs with
\* T = kind and the setter of the event: the error it returns ("" for Ok)
\* and the device map after the call.
ReducePropertyChangedEvent(devs, device_id, property_id, kind, event) ==
    LET failed(e) == [error |-> e, devices |-> devs]
    IN  IF ~HasDevice(devs, device_id) THEN failed("UnknownDevice")
        ELSE IF ~HasProperty(devs[device_id], property_id) THEN failed("UnknownProperty")
        ELSE LET property == devs[device_id].properties[property_id]
             IN  IF property.kind # kind THEN failed("IncorrectPropertyType")
                 ELSE LET set == IF kind = "Boolean" THEN BooleanSetValue(property, event.b)
                                 ELSE NumberSetValue(property, event.n)
                      IN  IF ~set.ok THEN failed(set.err)
                          ELSE [error |-> "",
                                devices |-> [devs EXCEPT
                                    ![device_id].properties[property_id] = set.property]]

\* write_guard.extend(discovered_devices...): insert in list order, the last
\* device of an id wins.
RECURSIVE ExtendDevices(_, _)
ExtendDevices(devs, list) ==
    IF list = <<>> THEN devs
    ELSE ExtendDevices([devs EXCEPT ![Head(list).id] = Head(list)], Tail(list))

\* The device map after Store::listen has handled one event.
Reduce(devs, event) ==
    CASE event.type = "DiscoveredDevices" -> ExtendDevices(devs, event.devices)
      [] event.type = "BooleanPropertyChanged" ->
            ReducePropertyChanged(devs, event.device_id, event.property_id, "Boolean", event)
      [] event.type = "NumberPropertyChanged" ->
            ReducePropertyChanged(devs, event.device_id, event.property_id, "Number", event)

\* The reducer folded over a sequence of events, first to last.
RECURSIVE FoldEvents(_, _)
FoldEvents(devs, events) ==
    IF events = <<>> THEN devs
    ELSE FoldEvents(Reduce(devs, Head(events)), Tail(events))

\* Whether reduce_property_changed_event returns early on the event: the
\* device or the property is unknown, the property is of another variant,
\* or the setter returns an error.
Drops(devs, event) ==
    /\ event.type # "DiscoveredDevices"
    /\ \/ ~HasDevice(devs, event.device_id)
       \/ ~HasProperty(devs[event.device_id], event.property_id)
       \/ LET property == devs[event.device_id].properties[event.property_id]
          IN  IF event.type = "BooleanPropertyChanged"
              THEN property.kind # "Boolean" \/ ~BooleanSetValue(property, event.b).ok
              ELSE property.kind # "Number" \/ ~NumberSetValue(property, event.n).ok

\* A loop that ends with the first event that is dropped.
ListenUntilDropped(handled) ==
    \A i \in DOMAIN handled :
        ~Drops(FoldEvents(EmptyDeviceMap, SubSeq(handled, 1, i - 1)), handled[i])

\* Whether the loop of Store::listen is still running after the events it
\* has handled: the early returns of reduce_property_changed_event leave the
\* function, not the loop, which ends only when the channel is closed.
ListenContinues(handled) == TRUE

\* Whether Store::listen calls notifier_tx.send for the event.
Publishes(event) == event.type = "DiscoveredDevices"

\* watch::Sender::send: replace the value, bump the version.
WatchSend(channel, value) == [value |-> value, version |-> channel.version + 1]

\* A receive that yields the newest event of the channel.
RecvIndexNewest(queue) == Len(queue)

\* The position in the channel of the event rx.recv() yields: the oldest.
RecvIndex(queue) == 1

\* A channel or list that keeps the entry at position i.
RemoveNone(queue, i) == queue

\* The channel or list without the entry at position i.
RemoveAt(queue, i) == SubSeq(queue, 1, i - 1) \o SubSeq(queue, i + 1, Len(queue))

\* ---------------------------------------------------------------------
\* Expressions
\* ---------------------------------------------------------------------

Literal(value) == [type |-> "Literal", value |-> value]

PropertyValue(device_id, property_id) ==
    [type |-> "PropertyValue", device_id |-> device_id, property_id |-> property_id]

Not(expression) == [type |-> "Not", expression |-> expression]

And(lhs, rhs) == [type |-> "And", lhs |-> lhs, rhs |-> rhs]

Or(lhs, rhs) == [type |-> "Or", lhs |-> lhs, rhs |-> rhs]

EqualTo(lhs, rhs) == [type |-> "EqualTo", lhs |-> lhs, rhs |-> rhs]

GreaterThanOrEqualTo(lhs, rhs) == [type |-> "GreaterThanOrEqualTo", lhs |-> lhs, rhs |-> rhs]

GreaterThan(lhs, rhs) == [type |-> "GreaterThan", lhs |-> lhs, rhs |-> rhs]

LessThan(lhs, rhs) == [type |-> "LessThan", lhs |-> lhs, rhs |-> rhs]

LessThanOrEqualTo(lhs, rhs) == [type |-> "LessThanOrEqualTo", lhs |-> lhs, rhs |-> rhs]

NotEqualTo(lhs, rhs) == [type |-> "NotEqualTo", lhs |-> lhs, rhs |-> rhs]

OkValue(value) == [ok |-> TRUE, value |-> value, error |-> ""]

ErrValue(error) == [ok |-> FALSE, value |-> NoneValue, error |-> error]

\* The PropertyValue arm of evaluate, over the devices read through the
\* snapshot of the context.
EvaluateProperty(devs, device_id, property_id) ==
    IF ~HasDevice(devs, device_id) THEN ErrValue("UnknownDevice")
    ELSE IF ~HasProperty(devs[device_id], property_id) THEN ErrValue("UnknownProperty")
    ELSE LET property == devs[device_id].properties[property_id]
         IN  CASE property.ptype = "Brightness" -> OkValue(NumberValue(property.nvalue))
               [] property.ptype = "On" -> OkValue(BooleanValue(property.bvalue))
               [] OTHER -> ErrValue("UnsupportedPropertyType")

\* And and Or that look at the right operand only when the left one does
\* not decide the result.
EvaluateLogicShortCircuit(type, l, r) ==
    IF ~l.ok THEN l
    ELSE IF l.value.t # "Boolean" THEN ErrValue("OperandTypeMismatch")
    ELSE IF l.value.b = (type = "Or") THEN OkValue(BooleanValue(l.value.b))
    ELSE IF ~r.ok THEN r
    ELSE IF r.value.t # "Boolean" THEN ErrValue("OperandTypeMismatch")
    ELSE OkValue(BooleanValue(r.value.b))

\* The And and Or arms of evaluate on the results of the two operands: the
\* error of the left one, else the error of the right one, else a mismatch
\* unless both are booleans.
EvaluateLogic(type, l, r) ==
    IF ~l.ok THEN l
    ELSE IF ~r.ok THEN r
    ELSE IF l.value.t = "Boolean" /\ r.value.t = "Boolean"
    THEN OkValue(BooleanValue(IF type = "And" THEN l.value.b /\ r.value.b
                              ELSE l.value.b \/ r.value.b))
    ELSE ErrValue("OperandTypeMismatch")

\* expression::evaluate over the devices of the context. The operands of a
\* binary expression are evaluated left to right, the first error returns.
RECURSIVE EvaluateIn(_, _)
EvaluateIn(expression, devs) ==
    CASE expression.type = "Literal" -> OkValue(expression.value)
      [] expression.type = "PropertyValue" ->
            EvaluateProperty(devs, expression.device_id, expression.property_id)
      [] expression.type = "Not" ->
            LET e == EvaluateIn(expression.expression, devs)
            IN  IF ~e.ok THEN e
                ELSE IF e.value.t = "Boolean" THEN OkValue(BooleanValue(~e.value.b))
                ELSE ErrValue("UnaryOperandTypeMismatch")
      [] expression.type \in {"GreaterThanOrEqualTo", "GreaterThan", "LessThan",
                               "LessThanOrEqualTo"} ->
            LET l == EvaluateIn(expression.lhs, devs)
                r == EvaluateIn(expression.rhs, devs)
                o == NumberCmp(l.value.n, r.value.n)
            IN  IF ~l.ok THEN l
                ELSE IF ~r.ok THEN r
                ELSE IF l.value.t # "Number" \/ r.value.t # "Number"
                THEN ErrValue("OperandTypeMismatch")
                ELSE OkValue(BooleanValue(
                        CASE expression.type = "GreaterThanOrEqualTo" -> o # "Less"
                          [] expression.type = "GreaterThan" -> o = "Greater"
                          [] expression.type = "LessThan" -> o = "Less"
                          [] expression.type = "LessThanOrEqualTo" -> o # "Greater"))
      [] expression.type \in {"And", "Or"} ->
            EvaluateLogic(expression.type, EvaluateIn(expression.lhs, devs),
                          EvaluateIn(expression.rhs, devs))
      [] expression.type \in {"EqualTo", "NotEqualTo"} ->
            LET l == EvaluateIn(expression.lhs, devs)
                r == EvaluateIn(expression.rhs, devs)
            IN  IF ~l.ok THEN l
                ELSE IF ~r.ok THEN r
                ELSE IF l.value.t # r.value.t THEN ErrValue("OperandTypeMismatch")
                ELSE IF expression.type = "EqualTo"
                     THEN OkValue(BooleanValue(ValueEq(l.value, r.value)))
                     ELSE OkValue(BooleanValue(~ValueEq(l.value, r.value)))

\* A context holds the snapshot it was built from.
Context(snapshot) == [snapshot |-> snapshot]

\* evaluate(expression, context): the snapshot is read when it is evaluated.
Evaluate(expression, context) == EvaluateIn(expression, SnapshotDevices(context.snapshot))

\* ---------------------------------------------------------------------
\* Flows
\* ---------------------------------------------------------------------

FlowLink(node, value) == [node |-> node, value |-> value]

LogAction(message) ==
    [kind |-> "log", message |-> message, device_id |-> "", property |-> <<>>]

ControlDeviceAction(device_id, property) ==
    [kind |-> "controlDevice", message |-> "", device_id |-> device_id, property |-> property]

\* FlowNode::new for each FlowNodeKind.
StartNode(id, outgoing) ==
    [id |-> id, kind |-> "Start", outgoing_nodes |-> outgoing,
     expression |-> Literal(NoneValue), action |-> LogAction(""), duration |-> 0]

EndNode(id) ==
    [id |-> id, kind |-> "End", outgoing_nodes |-> <<>>,
     expression |-> Literal(NoneValue), action |-> LogAction(""), duration |-> 0]

ConditionalNode(id, outgoing, expression) ==
    [id |-> id, kind |-> "Conditional", outgoing_nodes |-> outgoing,
     expression |-> expression, action |-> LogAction(""), duration |-> 0]

ActionNode(id, outgoing, action) ==
    [id |-> id, kind |-> "Action", outgoing_nodes |-> outgoing,
     expression |-> Literal(NoneValue), action |-> action, duration |-> 0]

SleepNode(id, outgoing, duration) ==
    [id |-> id, kind |-> "Sleep", outgoing_nodes |-> outgoing,
     expression |-> Literal(NoneValue), action |-> LogAction(""), duration |-> duration]

\* Flow::new without a schedule ("" stands for None); the trigger defaults
\* to the literal true.
Flow(id, trigger, start_node, nodes) ==
    [id |-> id, schedule |-> "", trigger |-> trigger, start_node |-> start_node,
     nodes_by_id |-> nodes]

DefaultTrigger == Literal(BooleanValue(TRUE))

\* A flow that branches on the lamp: when it is off, wait and end; when it
\* is on, switch it off. The link for false is listed first.
CondFlow ==
    Flow("cond", DefaultTrigger, "start",
         [n \in {"start", "c", "z", "t", "e1", "e2"} |->
            CASE n = "start" -> StartNode("start", <<FlowLink("c", NoneValue)>>)
              [] n = "c" -> ConditionalNode("c",
                                <<FlowLink("z", BooleanValue(FALSE)),
                                  FlowLink("t", BooleanValue(TRUE))>>,
                                PropertyValue("lamp", "on"))
              [] n = "z" -> SleepNode("z", <<FlowLink("e1", NoneValue)>>, 42)
              [] n = "t" -> ActionNode("t", <<FlowLink("e2", NoneValue)>>,
                                ControlDeviceAction("lamp", [p \in {"on"} |-> SetBooleanValue(FALSE)]))
              [] n = "e1" -> EndNode("e1")
              [] n = "e2" -> EndNode("e2")])

\* A flow triggered while the lamp is on: dim it, wait, then toggle it.
NapFlow ==
    Flow("nap", PropertyValue("lamp", "on"), "start",
         [n \in {"start", "a1", "z", "a2", "end"} |->
            CASE n = "start" -> StartNode("start", <<FlowLink("a1", NoneValue)>>)
              [] n = "a1" -> ActionNode("a1", <<FlowLink("z", NoneValue)>>,
                                ControlDeviceAction("lamp", [p \in {"bri"} |-> SetNumberValue(PositiveInt(1))]))
              [] n = "z" -> SleepNode("z", <<FlowLink("a2", NoneValue)>>, 42)
              [] n = "a2" -> ActionNode("a2", <<FlowLink("end", NoneValue)>>,
                                ControlDeviceAction("lamp", [p \in {"on"} |-> ToggleBooleanValue]))
              [] n = "end" -> EndNode("end")])

\* A flow whose trigger yields a number.
NumFlow ==
    Flow("num", PropertyValue("lamp", "bri"), "start",
         [n \in {"start", "a", "end"} |->
            CASE n = "start" -> StartNode("start", <<FlowLink("a", NoneValue)>>)
              [] n = "a" -> ActionNode("a", <<FlowLink("end", NoneValue)>>,
                                ControlDeviceAction("lamp", [p \in {"on"} |-> SetBooleanValue(TRUE)]))
              [] n = "end" -> EndNode("end")])

\* Two flows that write the same property of the lamp with different values.
OnFlow ==
    Flow("on", DefaultTrigger, "start",
         [n \in {"start", "a", "end"} |->
            CASE n = "start" -> StartNode("start", <<FlowLink("a", NoneValue)>>)
              [] n = "a" -> ActionNode("a", <<FlowLink("end", NoneValue)>>,
                                ControlDeviceAction("lamp", [p \in {"on"} |-> SetBooleanValue(TRUE)]))
              [] n = "end" -> EndNode("end")])

OffFlow ==
    Flow("off", DefaultTrigger, "start",
         [n \in {"start", "a", "end"} |->
            CASE n = "start" -> StartNode("start", <<FlowLink("a", NoneValue)>>)
              [] n = "a" -> ActionNode("a", <<FlowLink("end", NoneValue)>>,
                                ControlDeviceAction("lamp", [p \in {"on"} |-> SetBooleanValue(FALSE)]))
              [] n = "end" -> EndNode("end")])

\* conditionalFlow.json: a conditional on the literal number 42 whose links
\* carry Boolean(true) and Boolean(false).
ConditionalFlow ==
    Flow("conditionalFlow", DefaultTrigger, "startNode",
         [n \in {"startNode", "conditionalNode", "endNodeTrue", "endNodeFalse"} |->
            CASE n = "startNode" -> StartNode("startNode", <<FlowLink("conditionalNode", NoneValue)>>)
              [] n = "conditionalNode" ->
                    ConditionalNode("conditionalNode",
                        <<FlowLink("endNodeTrue", BooleanValue(TRUE)),
                          FlowLink("endNodeFalse", BooleanValue(FALSE))>>,
                        Literal(NumberValue(PositiveInt(42))))
              [] n = "endNodeTrue" -> EndNode("endNodeTrue")
              [] n = "endNodeFalse" -> EndNode("endNodeFalse")])

\* A flow with a cron schedule: every morning, set the brightness and
\* switch the lamp on.
CronFlow ==
    [Flow("cron", DefaultTrigger, "start",
         [n \in {"start", "a", "end"} |->
            CASE n = "start" -> StartNode("start", <<FlowLink("a", NoneValue)>>)
              [] n = "a" -> ActionNode("a", <<FlowLink("end", NoneValue)>>,
                                ControlDeviceAction("lamp",
                                    [p \in {"on", "bri"} |->
                                        IF p = "on" THEN SetBooleanValue(TRUE)
                                        ELSE SetNumberValue(PositiveInt(2))]))
              [] n = "end" -> EndNode("end")])
     EXCEPT !.schedule = "0 0 7 * * *"]

\* The flows directories the configuration may name, each with the flows
\* the loader returns for it, in load order.
FlowDirectories ==
    [d \in {"home", "duel", "resources"} |->
        CASE d = "home" -> <<CondFlow, NapFlow, NumFlow>>
          [] d = "duel" -> <<OnFlow, CronFlow, OffFlow>>
          [] d = "resources" -> <<ConditionalFlow>>]

\* The flows loaded at startup, in load order.
LoadedFlows == FlowDirectories[directory]

\* A filter that lets every flow through.
ReactiveFlowsAll(flows) == flows

\* FlowRegistry::reactive_flows and scheduled_flows
ReactiveFlows(flows) == SelectSeq(flows, LAMBDA flow : flow.schedule = "")

ScheduledFlows(flows) == SelectSeq(flows, LAMBDA flow : flow.schedule # "")

FlowIds == {LoadedFlows[i].id : i \in DOMAIN LoadedFlows}

\* FlowRegistry::by_id
FlowById(id) == LoadedFlows[CHOOSE i \in DOMAIN LoadedFlows : LoadedFlows[i].id = id]

\* ---------------------------------------------------------------------
\* Scope and actions
\* ---------------------------------------------------------------------

EmptyMap == [k \in {} |-> 0]

\* An extend that keeps the entries a already has.
MapExtendKeep(a, b) == [k \in DOMAIN a \cup DOMAIN b |-> IF k \in DOMAIN a THEN a[k] ELSE b[k]]

\* HashMap::insert / extend: the entries of b replace those of a.
MapExtend(a, b) == [k \in DOMAIN a \cup DOMAIN b |-> IF k \in DOMAIN b THEN b[k] ELSE a[k]]

\* Scope::new(): no key. The only key the actions use is "command_map".
EmptyScope == [has_command_map |-> FALSE, command_map |-> EmptyMap]

ScopeIsEmpty(scope) == ~scope.has_command_map

\* An action that starts the entry of its device afresh.
ActionExecuteFresh(action, context, scope) ==
    IF action.kind = "log" THEN scope
    ELSE IF ~HasDevice(SnapshotDevices(context.snapshot), action.device_id) THEN scope
    ELSE [has_command_map |-> TRUE,
          command_map |-> MapExtend(scope.command_map,
                            [d \in {action.device_id} |-> action.property])]

\* Action::execute for the two actions: the scope after the action.
ActionExecute(action, context, scope) ==
    IF action.kind = "log" THEN scope
    ELSE IF ~HasDevice(SnapshotDevices(context.snapshot), action.device_id) THEN scope
    ELSE LET command_map == scope.command_map
             previous == IF action.device_id \in DOMAIN command_map
                         THEN command_map[action.device_id] ELSE EmptyMap
             device_command_map == MapExtend(previous, action.property)
         IN  [has_command_map |-> TRUE,
              command_map |-> MapExtend(command_map,
                                [d \in {action.device_id} |-> device_command_map])]

\* ---------------------------------------------------------------------
\* Flow engine
\* ---------------------------------------------------------------------

NoNodeId == [some |-> FALSE, id |-> ""]

SomeNodeId(id) == [some |-> TRUE, id |-> id]

ScheduleOnce(flow_id, node_id, delay) ==
    [type |-> "ScheduleOnce", flow_id |-> flow_id, node_id |-> node_id, delay |-> delay]

Schedule(flow_id) ==
    [type |-> "Schedule", flow_id |-> flow_id, node_id |-> "", delay |-> 0]

\* What execute returns and does, as one record: the result, the report
\* (scope and duration), the commands it sent to the scheduler, and the
\* path of execute_node calls with the node each one led to. With the
\* result Err, scope is the scope execute drops when it returns the error.
Execution(flow, node_id, trigger, result, error, err_node, scope, duration, sent, path) ==
    [flow_id |-> flow.id, node_id |-> node_id, trigger |-> trigger, result |-> result,
     error |-> error, err_node |-> err_node, scope |-> scope, duration |-> duration,
     sent |-> sent, path |-> path]

\* An execute that evaluates the trigger only when it starts at the start
\* node.
TriggerResultOnStart(flow, node_id, context) ==
    IF node_id.some THEN OkValue(BooleanValue(TRUE)) ELSE Evaluate(flow.trigger, context)

\* The value execute matches the trigger on.
TriggerResult(flow, node_id, context) == Evaluate(flow.trigger, context)

\* A match on the trigger that only skips on Boolean(false).
TriggerPassesLax(trigger) == trigger.ok /\ trigger.value # BooleanValue(FALSE)

\* The first arm of the match on the trigger: Ok(Value::Boolean(true)).
TriggerPasses(trigger) == trigger.ok /\ trigger.value.t = "Boolean" /\ trigger.value.b

\* A start node lookup without the check for an End node.
ProvidedStartNodeAny(flow, node_id) ==
    IF node_id.some
    THEN IF node_id.id \notin DOMAIN flow.nodes_by_id
         THEN [found |-> FALSE, some |-> FALSE, id |-> node_id.id]
         ELSE [found |-> TRUE, some |-> TRUE, id |-> node_id.id]
    ELSE [found |-> TRUE, some |-> TRUE, id |-> flow.start_node]

\* The node execute starts at: found is false when the id is not in the
\* index, some is false when the id names an End node.
ProvidedStartNode(flow, node_id) ==
    IF node_id.some
    THEN IF node_id.id \notin DOMAIN flow.nodes_by_id
         THEN [found |-> FALSE, some |-> FALSE, id |-> node_id.id]
         ELSE IF flow.nodes_by_id[node_id.id].kind = "End"
              THEN [found |-> TRUE, some |-> FALSE, id |-> ""]
              ELSE [found |-> TRUE, some |-> TRUE, id |-> node_id.id]
    ELSE [found |-> TRUE, some |-> TRUE, id |-> flow.start_node]

\* The link execute_node follows out of a node: for every kind of node,
\* node.outgoing_nodes().first().
NextFlowLink(node, context) == Head(node.outgoing_nodes)

\* An execute_node that ends the execution at a node without a link.
ExecuteNodeEndsWithoutLink(flow, node, context, scope) ==
    LET after == IF node.kind = "Action" THEN ActionExecute(node.action, context, scope)
                 ELSE scope
    IN  IF node.outgoing_nodes = <<>>
        THEN [ok |-> TRUE, outcome |-> IF node.kind = "Sleep" THEN "Sleep" ELSE "End",
              next |-> node.id, scope |-> after]
        ELSE LET next == NextFlowLink(node, context).node
             IN  [ok |-> TRUE,
                  outcome |-> IF node.kind = "Sleep" THEN "Sleep"
                              ELSE IF flow.nodes_by_id[next].kind = "End" THEN "End"
                              ELSE "Next",
                  next |-> next, scope |-> after]

\* execute_node: run the action of an action node, then follow the link.
ExecuteNode(flow, node, context, scope) ==
    LET after == IF node.kind = "Action" THEN ActionExecute(node.action, context, scope)
                 ELSE scope
    IN  IF node.outgoing_nodes = <<>>
        THEN [ok |-> FALSE, outcome |-> "", next |-> "", scope |-> after]
        ELSE LET next == NextFlowLink(node, context).node
             IN  [ok |-> TRUE,
                  outcome |-> IF node.kind = "Sleep" THEN "Sleep"
                              ELSE IF flow.nodes_by_id[next].kind = "End" THEN "End"
                              ELSE "Next",
                  next |-> next, scope |-> after]

\* A sleep command that names the sleep node itself.
SleepCommandSelf(flow, node, next) == ScheduleOnce(flow.id, node.id, node.duration)

\* The command execute sends for a sleep node that leads to next.
SleepCommand(flow, node, next) == ScheduleOnce(flow.id, next, node.duration)

\* Whether the channel behind the sender tx handed to execute is closed: its
\* receiver is dropped. In the program the receiver is owned by the
\* scheduler task and dropped when that task returns; a direct call is
\* handed a sender of its own.
SenderClosed == IF call.fn = "" THEN scheduler = "returned" ELSE call.closed

\* A send whose error is ignored.
SenderSendIgnored(closed) == TRUE

\* tx.send(command).await is Ok: the channel is not closed.
SenderSend(closed) == ~closed

\* The loop of execute from a node on. The loop keeps no record of the
\* nodes it has executed: when it comes to a node a second time it goes
\* round for ever, which the result Diverges stands for.
RECURSIVE Walk(_, _, _, _, _, _, _)
Walk(flow, node_id, trigger, id, context, scope, path) ==
    LET node == flow.nodes_by_id[id]
        r == ExecuteNode(flow, node, context, scope)
        steps == Append(path, [node |-> id, next |-> r.next])
    IN  IF \E k \in DOMAIN path : path[k].node = id
        THEN Execution(flow, node_id, trigger, "Diverges", "", id, scope, "ZERO", <<>>, path)
        ELSE IF ~r.ok
        THEN Execution(flow, node_id, trigger, "Err", "MissingOutgoingNode", id,
                       r.scope, "ZERO", <<>>, steps)
        ELSE IF r.outcome = "Next"
        THEN Walk(flow, node_id, trigger, r.next, context, r.scope, steps)
        ELSE IF r.outcome = "End"
        THEN Execution(flow, node_id, trigger, "Ok", "", "", r.scope, "elapsed", <<>>, steps)
        ELSE IF ~SenderSend(SenderClosed)
        THEN Execution(flow, node_id, trigger, "Err", "FailedScheduleSleepCommand", "",
                       r.scope, "ZERO", <<>>, steps)
        ELSE Execution(flow, node_id, trigger, "Ok", "", "", r.scope, "elapsed",
                       <<SleepCommand(flow, node, r.next)>>, steps)

\* An execute that starts at the start node of the flow whatever node_id is.
ExecuteFromStartNode(flow, node_id, context) ==
    Walk(flow, node_id, TriggerResult(flow, node_id, context), flow.start_node,
         context, EmptyScope, <<>>)

\* engine::execute
Execute(flow, node_id, context) ==
    LET trigger == TriggerResult(flow, node_id, context)
        start == ProvidedStartNode(flow, node_id)
    IN  IF ~trigger.ok
        THEN Execution(flow, node_id, trigger, "Err", "FailedTriggerEvaluation", "",
                       EmptyScope, "ZERO", <<>>, <<>>)
        ELSE IF ~TriggerPasses(trigger)
        THEN Execution(flow, node_id, trigger, "Ok", "", "", EmptyScope, "ZERO", <<>>, <<>>)
        ELSE IF ~start.found
        THEN Execution(flow, node_id, trigger, "Err", "MissingProvidedStartNode", node_id.id,
                       EmptyScope, "ZERO", <<>>, <<>>)
        ELSE IF ~start.some
        THEN Execution(flow, node_id, trigger, "Ok", "", "", EmptyScope, "elapsed", <<>>, <<>>)
        ELSE Walk(flow, node_id, trigger, start.id, context, EmptyScope, <<>>)

\* ---------------------------------------------------------------------
\* Merge and dispatch
\* ---------------------------------------------------------------------

\* A merge that does not look at the result of the execution.
MergeReportAnyResult(merged, report) ==
    IF report.scope.has_command_map
    THEN LET command_map == report.scope.command_map
         IN  [d \in DOMAIN merged \cup DOMAIN command_map |->
                IF d \notin DOMAIN command_map THEN merged[d]
                ELSE IF d \notin DOMAIN merged THEN command_map[d]
                ELSE MapExtend(merged[d], command_map[d])]
    ELSE merged

\* One iteration of the outer loop of merge_command_maps: filter_map keeps
\* the Ok reports, take_from_scope yields the command map if there is one.
MergeReport(merged, report) ==
    IF report.result = "Ok" /\ report.scope.has_command_map
    THEN LET command_map == report.scope.command_map
         IN  [d \in DOMAIN merged \cup DOMAIN command_map |->
                IF d \notin DOMAIN command_map THEN merged[d]
                ELSE IF d \notin DOMAIN merged THEN command_map[d]
                ELSE MapExtend(merged[d], command_map[d])]
    ELSE merged

RECURSIVE MergeFrom(_, _)
MergeFrom(merged, reports) ==
    IF reports = <<>> THEN merged
    ELSE MergeFrom(MergeReport(merged, Head(reports)), Tail(reports))

\* A merge that goes through the reports from the last to the first.
MergeCommandMapsReversed(reports) ==
    MergeFrom(EmptyMap, [i \in DOMAIN reports |-> reports[Len(reports) + 1 - i]])

\* merge_command_maps
MergeCommandMaps(reports) == MergeFrom(EmptyMap, reports)

\* The controllers registered by main.
ControllerRegistry == {"hue"}

\* A lookup that takes every controller id for registered.
ControllerRegistryGetAny(controller_id) == controller_id # ""

\* device.controller_id.and_then(controller_registry::get) is Some: the
\* device names a controller ("" stands for None) and it is registered.
ControllerRegistryGet(controller_id) ==
    controller_id # "" /\ controller_id \in ControllerRegistry

RECURSIVE Flatten(_)
Flatten(seqs) == IF seqs = <<>> THEN <<>> ELSE Head(seqs) \o Flatten(Tail(seqs))

\* execute_flows up to the merge: the flows run concurrently against one
\* context, order[i] is the flow whose report is collected i-th.
ExecuteFlows(flows, snapshot, order) ==
    LET context == Context(snapshot)
        results == [i \in DOMAIN flows |-> Execute(flows[order[i]], NoNodeId, context)]
    IN  [results |-> results,
         command_map |-> MergeCommandMaps(results),
         sent |-> Flatten([i \in DOMAIN results |-> results[i].sent])]

\* A dispatch that sends one command for each property of a device.
DispatchCommandsPerProperty(snapshot, command_map) ==
    LET devs == SnapshotDevices(snapshot)
    IN  UNION { { [device_id |-> d, controller_id |-> devs[d].controller_id,
                   property |-> [q \in {p} |-> command_map[d][p]]] :
                  p \in DOMAIN command_map[d] } :
                d \in {x \in DOMAIN command_map :
                    HasDevice(devs, x) /\ ControllerRegistryGet(devs[x].controller_id)} }

\* dispatch_commands: the commands handed to a controller.
DispatchCommands(snapshot, command_map) ==
    LET devs == SnapshotDevices(snapshot)
    IN  { [device_id |-> d, controller_id |-> devs[d].controller_id,
           property |-> command_map[d]] :
          d \in {x \in DOMAIN command_map :
                    HasDevice(devs, x) /\ ControllerRegistryGet(devs[x].controller_id)} }

\* ---------------------------------------------------------------------
\* Store task and hub adapters
\* ---------------------------------------------------------------------

\* A hub adapter sends an event; main sends the discovery before it starts
\* the observer, so the first event is a discovery.
HubSendWithin(event, max) ==
    /\ Len(arrived) < max
    /\ Len(eventQueue) < StoreBufferSize
    /\ (arrived = <<>> => event.type = "DiscoveredDevices")
    /\ eventQueue' = Append(eventQueue, event)
    /\ arrived' = Append(arrived, event)
    /\ UNCHANGED <<devices, applied, notifier, watcher, schedulerQueue, scheduler,
                   timers, lastResume, directory, jobs, lastScheduled, call, clock>>

HubSend(event) == HubSendWithin(event, MaxEvents)

\* One iteration of the loop of Store::listen.
StoreListen ==
    /\ ListenContinues(SubSeq(arrived, 1, applied))
    /\ eventQueue # <<>>
    /\ LET i == RecvIndex(eventQueue)
           event == eventQueue[i]
       IN  /\ devices' = Reduce(devices, event)
           /\ eventQueue' = RemoveAt(eventQueue, i)
           /\ notifier' = IF Publishes(event) THEN WatchSend(notifier, LiveSnapshot)
                          ELSE notifier
    /\ applied' = applied + 1
    /\ UNCHANGED <<arrived, watcher, schedulerQueue, scheduler, timers, lastResume,
                   directory, jobs, lastScheduled, call, clock>>

\* ---------------------------------------------------------------------
\* Store listener
\* ---------------------------------------------------------------------

\* The flows store_listener runs on a change: main hands it the flow
\* registry, of which it takes the reactive flows.
ListenerFlows == ReactiveFlows(LoadedFlows)

\* A receiver that marks only the next version seen, as a queue would.
MarkSeenNext(seen, channel) == seen + 1

\* watch::Receiver::changed returns once the version differs from the one
\* the receiver has seen, and marks the current version seen.
MarkSeen(seen, channel) == channel.version

\* A receiver that is woken only by the version right after the one it saw.
HasChangedByOne(seen, channel) == channel.version = seen + 1

\* watch::Receiver::changed is ready: the version of the channel differs
\* from the one the receiver has seen.
HasChanged(seen, channel) == channel.version # seen

\* watch::Receiver::borrow: the current value; the version is not marked.
WatchBorrow(channel) == channel

\* A command on the scheduler channel, with the devices the sending
\* execution read (history).
Envelope(command) == [command |-> command, sleep_devices |-> devices]

\* rx.changed().await returned Ok.
WatcherChanged ==
    /\ watcher.pc = "idle"
    /\ HasChanged(watcher.seen, notifier)
    /\ watcher' = [watcher EXCEPT
            !.pc = "woken",
            !.seen = MarkSeen(watcher.seen, notifier),
            !.woken_version = notifier.version,
            !.pending = notifier.version - watcher.seen,
            !.wakes = @ + 1,
            !.coalesced = @ + (notifier.version - watcher.seen - 1)]
    /\ UNCHANGED <<devices, eventQueue, arrived, applied, notifier, schedulerQueue,
                   scheduler, timers, lastResume, directory, jobs, lastScheduled, call, clock>>

\* let snapshot = rx.borrow().clone()
WatcherBorrow ==
    /\ watcher.pc = "woken"
    /\ LET borrowed == WatchBorrow(notifier)
       IN  watcher' = [watcher EXCEPT
            !.pc = "holding",
            !.snapshot = borrowed.value,
            !.previous_version = watcher.borrowed_version,
            !.borrowed_version = borrowed.version,
            !.latest_version = notifier.version,
            !.held = SnapshotDevices(borrowed.value)]
    /\ UNCHANGED <<devices, eventQueue, arrived, applied, notifier, schedulerQueue,
                   scheduler, timers, lastResume, directory, jobs, lastScheduled, call, clock>>

\* execute_flows and merge_command_maps: the flows run concurrently, their
\* reports are collected in the order they complete.
WatcherExecuteFlows ==
    /\ watcher.pc = "holding"
    /\ \E order \in Permutations(DOMAIN ListenerFlows) :
      \E results \in {[i \in DOMAIN ListenerFlows |->
                            Execute(ListenerFlows[order[i]], NoNodeId,
                                    Context(watcher.snapshot))]} :
        LET sent == Flatten([i \in DOMAIN results |-> results[i].sent])
        IN  /\ watcher' = [watcher EXCEPT
                    !.pc = "merged",
                    !.results = results,
                    !.read = SnapshotDevices(watcher.snapshot),
                    !.merged = MergeCommandMaps(results)]
            /\ schedulerQueue' = schedulerQueue \o
                    [i \in DOMAIN sent |-> Envelope(sent[i])]
    /\ UNCHANGED <<devices, eventQueue, arrived, applied, notifier, scheduler, timers,
                   lastResume, directory, jobs, lastScheduled, call, clock>>

\* The dispatch loop at the end of an iteration of store_listener.
WatcherDispatch ==
    /\ watcher.pc = "merged"
    /\ watcher' = [watcher EXCEPT
            !.pc = "idle",
            !.runs = @ + 1,
            !.dispatched = DispatchCommands(watcher.snapshot, watcher.merged)]
    /\ UNCHANGED <<devices, eventQueue, arrived, applied, notifier, schedulerQueue,
                   scheduler, timers, lastResume, directory, jobs, lastScheduled, call, clock>>

\* ---------------------------------------------------------------------
\* Scheduler
\* ---------------------------------------------------------------------

\* cron::Schedule::from_str accepts the expression.
CronFromStr(cron) == cron \in {"0 0 7 * * *", "0 30 22 * * Mon-Fri"}

\* No datetime: the iterator of a job loop has not been created yet.
NoDatetime == 0 - 1

\* The job loop spawned for a scheduled flow, before its first poll; runs
\* and skipped are the history of the datetimes its loop has handled.
SpawnedJob(flow) ==
    [flow_id |-> flow.id, cron |-> flow.schedule, pc |-> "upcoming",
     created |-> NoDatetime, previous |-> NoDatetime, datetime |-> NoDatetime,
     runs |-> <<>>, skipped |-> {}]

\* The Schedule arm of the scheduler: an unknown flow, a flow without a
\* schedule or an invalid cron expression is skipped, otherwise a job loop
\* is spawned for the flow.
SchedulerSchedule(command) ==
    /\ IF command.flow_id \notin FlowIds THEN UNCHANGED jobs
       ELSE LET flow == FlowById(command.flow_id)
            IN  IF flow.schedule = "" THEN UNCHANGED jobs
                ELSE IF ~CronFromStr(flow.schedule) THEN UNCHANGED jobs
                ELSE jobs' = Append(jobs, SpawnedJob(flow))
    /\ UNCHANGED <<scheduler, timers>>

\* The ScheduleOnce arm of the scheduler: an unknown flow id makes the task
\* return, a known one spawns a subtask. seq numbers the subtasks in the
\* order they are spawned: those that have woken and those still asleep.
SchedulerScheduleOnce(envelope) ==
    LET command == envelope.command
    IN  /\ IF command.flow_id \notin FlowIds
           THEN /\ scheduler' = "returned"
                /\ UNCHANGED timers
           ELSE /\ timers' = Append(timers,
                        [flow_id |-> command.flow_id, node_id |-> command.node_id,
                         delay |-> command.delay,
                         sleep_devices |-> envelope.sleep_devices,
                         seq |-> lastResume.count + Len(timers) + 1])
                /\ UNCHANGED scheduler
        /\ UNCHANGED jobs

\* One iteration of the loop of scheduler: take the oldest command.
SchedulerRecv ==
    /\ scheduler = "running"
    /\ schedulerQueue # <<>>
    /\ LET envelope == Head(schedulerQueue)
       IN  IF envelope.command.type = "Schedule"
           THEN SchedulerSchedule(envelope.command)
           ELSE SchedulerScheduleOnce(envelope)
    /\ schedulerQueue' = Tail(schedulerQueue)
    /\ UNCHANGED <<devices, eventQueue, arrived, applied, notifier, watcher, lastResume,
                   directory, lastScheduled, call, clock>>

\* The body of the job loop after sleep_until: the flow runs as a batch of
\* one against the snapshot borrowed then.
JobExecuteFlows(j) ==
    LET flow == FlowById(jobs[j].flow_id)
        snapshot == WatchBorrow(notifier).value
        batch == ExecuteFlows(<<flow>>, snapshot, <<1>>)
    IN  /\ lastScheduled' = [valid |-> TRUE, flow_id |-> flow.id,
                             results |-> batch.results,
                             read |-> SnapshotDevices(snapshot),
                             merged |-> batch.command_map,
                             dispatched |-> DispatchCommands(snapshot, batch.command_map)]
        /\ schedulerQueue' = schedulerQueue \o
                 [k \in DOMAIN batch.sent |-> Envelope(batch.sent[k])]

\* An upcoming date of the schedule of a job loop is reached: the flow runs
\* as a batch of one against the snapshot borrowed then.
JobRun(j) ==
    /\ j \in DOMAIN jobs
    /\ JobExecuteFlows(j)
    /\ UNCHANGED <<devices, eventQueue, arrived, applied, notifier, watcher, scheduler,
                   timers, lastResume, directory, jobs, call, clock>>

\* Time passes.
Tick ==
    /\ clock < MaxDatetimes * CronPeriod
    /\ clock' = clock + 1
    /\ UNCHANGED <<devices, eventQueue, arrived, applied, notifier, watcher, schedulerQueue,
                   scheduler, timers, lastResume, directory, jobs, lastScheduled, call>>

\* cron::Schedule::after(t).next(): the first datetime of the schedule
\* later than t; the datetimes of a schedule are CronPeriod ticks apart.
ScheduleAfter(t) == ((t \div CronPeriod) + 1) * CronPeriod

\* A check that lets every datetime through.
AlreadyPassedNever(duration) == FALSE

\* duration.num_milliseconds() < 0
AlreadyPassed(duration) == duration < 0

\* One iteration of the job loop up to its await: schedule.upcoming(Utc)
\* starts after the present at the first poll, each next() is later than
\* the datetime before; a datetime already passed is skipped, for another
\* the loop sleeps.
JobUpcoming(j) ==
    /\ j \in DOMAIN jobs
    /\ jobs[j].pc = "upcoming"
    /\ LET job == jobs[j]
           after == IF job.previous = NoDatetime THEN clock ELSE job.previous
           datetime == ScheduleAfter(after)
           duration == datetime - clock
           polled == [job EXCEPT !.previous = datetime,
                                 !.created = IF job.created = NoDatetime THEN clock ELSE @]
       IN  jobs' = [jobs EXCEPT ![j] =
                IF AlreadyPassed(duration)
                THEN [polled EXCEPT !.skipped = @ \cup {[datetime |-> datetime, reached |-> clock]}]
                ELSE [polled EXCEPT !.pc = "sleeping", !.datetime = datetime,
                                    !.runs = Append(@, [datetime |-> datetime, reached |-> clock,
                                                        woke |-> NoDatetime,
                                                        returned |-> NoDatetime,
                                                        read |-> EmptyDeviceMap,
                                                        latest |-> EmptyDeviceMap])]]
    /\ UNCHANGED <<devices, eventQueue, arrived, applied, notifier, watcher, schedulerQueue,
                   scheduler, timers, lastResume, directory, lastScheduled, call, clock>>

\* sleep_until returns, at the instant or later: the loop borrows the
\* snapshot and starts execute_flows.
JobWake(j) ==
    /\ j \in DOMAIN jobs
    /\ jobs[j].pc = "sleeping"
    /\ clock >= jobs[j].datetime
    /\ JobExecuteFlows(j)
    /\ jobs' = [jobs EXCEPT ![j].pc = "running",
                            ![j].runs[Len(jobs[j].runs)].woke = clock,
                            ![j].runs[Len(jobs[j].runs)].read = lastScheduled'.read,
                            ![j].runs[Len(jobs[j].runs)].latest = devices]
    /\ UNCHANGED <<devices, eventQueue, arrived, applied, notifier, watcher, scheduler,
                   timers, lastResume, directory, call, clock>>

\* execute_flows returns: the loop takes the next datetime.
JobReturn(j) ==
    /\ j \in DOMAIN jobs
    /\ jobs[j].pc = "running"
    /\ jobs' = [jobs EXCEPT ![j].pc = "upcoming",
                            ![j].runs[Len(jobs[j].runs)].returned = clock]
    /\ UNCHANGED <<devices, eventQueue, arrived, applied, notifier, watcher, schedulerQueue,
                   scheduler, timers, lastResume, directory, lastScheduled, call, clock>>

\* A subtask that runs the flow against a copy of the devices taken when
\* the flow went to sleep.
ResumeSnapshotAtSleep(timer) == FrozenSnapshot(timer.sleep_devices)

\* The snapshot a woken subtask runs the flow against:
\* notifier_rx_clone.borrow().clone() after sleep_until.
ResumeSnapshot(timer) == WatchBorrow(notifier).value

\* The subtask of a ScheduleOnce wakes up: execute_flow with the node id.
TimerFire(i) ==
    /\ i \in DOMAIN timers
    /\ \E result \in {Execute(FlowById(timers[i].flow_id), SomeNodeId(timers[i].node_id),
                                Context(ResumeSnapshot(timers[i])))} :
       LET timer == timers[i]
           snapshot == ResumeSnapshot(timer)
           merged == MergeCommandMaps(<<result>>)
       IN  /\ lastResume' = [valid |-> TRUE, count |-> lastResume.count + 1,
                             timer |-> timer, exec |-> result,
                             read |-> SnapshotDevices(snapshot),
                             latest |-> SnapshotDevices(notifier.value),
                             merged |-> merged,
                             dispatched |-> DispatchCommands(snapshot, merged)]
           /\ schedulerQueue' = schedulerQueue \o
                    [k \in DOMAIN result.sent |-> Envelope(result.sent[k])]
    /\ timers' = RemoveAt(timers, i)
    /\ UNCHANGED <<devices, eventQueue, arrived, applied, notifier, watcher, scheduler,
                   directory, jobs, lastScheduled, call, clock>>

\* ---------------------------------------------------------------------
\* Flow loader
\* ---------------------------------------------------------------------

SerializedFlowLink(node_id, value) == [node_id |-> node_id, value |-> value]

\* A SerializedFlowNode; outgoing_nodes is what its method of that name
\* returns: the one link of a start, action or sleep node, none for an end
\* node, the list of a conditional node.
SerializedFlowNode(type, id, outgoing) == [type |-> type, id |-> id, outgoing_nodes |-> outgoing]

SerializedFlow(id, nodes) == [id |-> id, nodes |-> nodes]

\* A FlowFactoryError with the node it names.
FlowFactoryError(error, node) ==
    [ok |-> FALSE, error |-> error, node |-> node,
     flow |-> Flow("", DefaultTrigger, "", [n \in {} |-> EndNode("")])]

\* nodes_map: the nodes by id, the last node of an id wins.
NodesMap(nodes) ==
    [id \in {nodes[i].id : i \in DOMAIN nodes} |->
        nodes[CHOOSE i \in DOMAIN nodes :
                /\ nodes[i].id = id
                /\ \A j \in DOMAIN nodes : nodes[j].id = id => j <= i]]

\* The orders in which a HashMap with these keys may be iterated.
IterationOrders(keys) ==
    {order \in [1..Cardinality(keys) -> keys] :
        \A i, j \in DOMAIN order : order[i] = order[j] => i = j}

\* The parent linkage check over the links of one node, from link i on:
\* child_to_parent.insert fails on a child that has a parent already.
RECURSIVE InsertLinks(_, _, _, _)
InsertLinks(links, i, id, child_to_parent) ==
    IF i > Len(links) THEN [ok |-> TRUE, node |-> "", child_to_parent |-> child_to_parent]
    ELSE IF links[i].node_id \in DOMAIN child_to_parent
    THEN [ok |-> FALSE, node |-> links[i].node_id, child_to_parent |-> child_to_parent]
    ELSE InsertLinks(links, i + 1, id,
                     MapExtend(child_to_parent, [c \in {links[i].node_id} |-> id]))

\* impl Hash for Number: the word written to the hasher, without the
\* variant. An integer writes its 64 bits, a float the bits of the double,
\* which are those of an integer for 0.0 only among the numbers in use.
NumberHash(n) ==
    IF n.variant = "Float" /\ n.v # 0 THEN [word |-> "f64", v |-> n.v]
    ELSE [word |-> "u64", v |-> AsU64(n.v)]

\* Hash of Value: the variant, then the payload.
ValueHash(x) ==
    [t |-> x.t, b |-> x.b,
     n |-> IF x.t = "Number" THEN NumberHash(x.n) ELSE NumberHash(PositiveInt(0))]

\* Two keys of a HashMap<&Value, _> fall on one entry: they are equal and
\* the table compares them, which it does when their hashes are equal and,
\* for different hashes, only when the tags the table keeps of them collide.
SameKey(x, y, collide) == ValueEq(x, y) /\ (ValueHash(x) = ValueHash(y) \/ collide)

\* The links of a node hold two equal values with different hashes.
TagCollisions(nodes) ==
    IF \E k \in DOMAIN nodes : \E i, j \in DOMAIN nodes[k].outgoing_nodes :
            LET x == nodes[k].outgoing_nodes[i].value
                y == nodes[k].outgoing_nodes[j].value
            IN  ValueEq(x, y) /\ ValueHash(x) # ValueHash(y)
    THEN BOOLEAN ELSE {FALSE}

\* value_to_nodes has a value with more than one node.
DuplicateLinkValues(links, collide) ==
    \E i, j \in DOMAIN links : i < j /\ SameKey(links[i].value, links[j].value, collide)

\* The loop over nodes_map that fills child_to_parent, in the given order.
RECURSIVE CheckLinks(_, _, _, _)
CheckLinks(nodes_map, order, child_to_parent, collide) ==
    IF order = <<>>
    THEN [ok |-> TRUE, error |-> "", node |-> "", child_to_parent |-> child_to_parent]
    ELSE LET id == Head(order)
             links == nodes_map[id].outgoing_nodes
             inserted == InsertLinks(links, 1, id, child_to_parent)
         IN  IF ~inserted.ok
             THEN [ok |-> FALSE, error |-> "TooManyParentNodes", node |-> inserted.node,
                   child_to_parent |-> child_to_parent]
             ELSE IF DuplicateLinkValues(links, collide)
             THEN [ok |-> FALSE, error |-> "DuplicateLinkValues", node |-> id,
                   child_to_parent |-> child_to_parent]
             ELSE CheckLinks(nodes_map, Tail(order), inserted.child_to_parent, collide)

\* to_flow_node on the links map_outgoing_nodes returns: a link holds the
\* node built for its node_id, named here by its id.
ToFlowNode(serialized_node, outgoing_nodes) ==
    CASE serialized_node.type = "startNode" -> StartNode(serialized_node.id, outgoing_nodes)
      [] serialized_node.type = "endNode" -> EndNode(serialized_node.id)
      [] serialized_node.type = "conditionalNode" ->
            ConditionalNode(serialized_node.id, outgoing_nodes, Literal(BooleanValue(TRUE)))
      [] serialized_node.type = "actionNode" ->
            ActionNode(serialized_node.id, outgoing_nodes, LogAction("Action is triggered"))
      [] serialized_node.type = "sleepNode" -> SleepNode(serialized_node.id, outgoing_nodes, 1)

\* The first link of the node whose node has not been built yet, for
\* map_outgoing_nodes; 0 when it has none.
MissingLink(serialized_node, flow_node_map) ==
    LET links == serialized_node.outgoing_nodes
        missing == {i \in DOMAIN links : links[i].node_id \notin DOMAIN flow_node_map}
    IN  IF missing = {} THEN 0
        ELSE CHOOSE i \in missing : \A j \in missing : i <= j

\* The loop that builds the nodes from the end nodes upwards, and the
\* checks after it. nodes_to_visit is popped at the back; remaining holds
\* the ids still in nodes_map; start_node "" stands for None.
RECURSIVE BuildNodes(_, _, _, _)
BuildNodes(flow, nodes_map, child_to_parent, st) ==
    IF st.nodes_to_visit = <<>>
    THEN IF st.remaining # {} THEN FlowFactoryError("UnusedNodes", "")
         ELSE IF st.start_node = "" THEN FlowFactoryError("MissingStartNode", "")
         ELSE [ok |-> TRUE, error |-> "", node |-> "",
               flow |-> Flow(flow.id, DefaultTrigger, st.start_node, st.flow_node_map)]
    ELSE LET node_id == st.nodes_to_visit[Len(st.nodes_to_visit)]
             rest == SubSeq(st.nodes_to_visit, 1, Len(st.nodes_to_visit) - 1)
         IN  IF node_id \notin st.remaining
             THEN BuildNodes(flow, nodes_map, child_to_parent, [st EXCEPT !.nodes_to_visit = rest])
             ELSE LET serialized_node == nodes_map[node_id]
                      missing == MissingLink(serialized_node, st.flow_node_map)
                      outgoing_nodes ==
                          [i \in DOMAIN serialized_node.outgoing_nodes |->
                              FlowLink(serialized_node.outgoing_nodes[i].node_id,
                                       serialized_node.outgoing_nodes[i].value)]
                      node == ToFlowNode(serialized_node, outgoing_nodes)
                      has_parent == node_id \in DOMAIN child_to_parent
                      parent_id == child_to_parent[node_id]
                      count == IF st.remaining_children[parent_id] = 0 THEN 0
                               ELSE st.remaining_children[parent_id] - 1
                  IN  IF serialized_node.type # "startNode" /\ ~has_parent
                      THEN FlowFactoryError("NoConnectingNode", node_id)
                      ELSE IF missing # 0
                      THEN FlowFactoryError("MissingNode", node_id)
                      ELSE BuildNodes(flow, nodes_map, child_to_parent,
                              [nodes_to_visit |->
                                  IF has_parent /\ parent_id \in DOMAIN st.remaining_children
                                               /\ count = 0
                                  THEN Append(rest, parent_id) ELSE rest,
                               remaining |-> st.remaining \ {node_id},
                               remaining_children |->
                                  IF has_parent /\ parent_id \in DOMAIN st.remaining_children
                                  THEN [st.remaining_children EXCEPT ![parent_id] = count]
                                  ELSE st.remaining_children,
                               flow_node_map |->
                                  MapExtend(st.flow_node_map, [k \in {node_id} |-> node]),
                               start_node |-> IF node.kind = "Start" THEN node_id
                                              ELSE st.start_node])

\* A loader that turns every node of the list into a node of the flow when
\* every link names a node of the list, without building from the end nodes
\* upwards.
FromJsonDirect(flow, order, collide) ==
    LET nodes_map == NodesMap(flow.nodes)
        starts == {id \in DOMAIN nodes_map : nodes_map[id].type = "startNode"}
        dangling == {id \in DOMAIN nodes_map :
                        \E i \in DOMAIN nodes_map[id].outgoing_nodes :
                            nodes_map[id].outgoing_nodes[i].node_id \notin DOMAIN nodes_map}
    IN  IF Cardinality(starts) # 1 THEN FlowFactoryError("MissingStartNode", "")
        ELSE IF dangling # {}
        THEN FlowFactoryError("MissingNode", CHOOSE id \in dangling : TRUE)
        ELSE [ok |-> TRUE, error |-> "", node |-> "",
              flow |-> Flow(flow.id, DefaultTrigger, CHOOSE id \in starts : TRUE,
                            [id \in DOMAIN nodes_map |->
                                ToFlowNode(nodes_map[id],
                                    [i \in DOMAIN nodes_map[id].outgoing_nodes |->
                                        FlowLink(nodes_map[id].outgoing_nodes[i].node_id,
                                                 nodes_map[id].outgoing_nodes[i].value)])])]

\* from_json on a deserialized flow; order is the order in which the loop
\* of the parent linkage check iterates nodes_map, collide whether the tags
\* of equal link values with different hashes collide.
FromJson(flow, order, collide) ==
    LET num_start_nodes ==
            Cardinality({i \in DOMAIN flow.nodes : flow.nodes[i].type = "startNode"})
        end_nodes == SelectSeq(flow.nodes, LAMBDA node : node.type = "endNode")
        nodes_map == NodesMap(flow.nodes)
        checked == CheckLinks(nodes_map, order, EmptyMap, collide)
    IN  IF num_start_nodes = 0 THEN FlowFactoryError("MissingStartNode", "")
        ELSE IF num_start_nodes > 1 THEN FlowFactoryError("TooManyStartNodes", "")
        ELSE IF end_nodes = <<>> THEN FlowFactoryError("MissingEndNode", "")
        ELSE IF ~checked.ok THEN FlowFactoryError(checked.error, checked.node)
        ELSE BuildNodes(flow, nodes_map, checked.child_to_parent,
                [nodes_to_visit |-> [i \in DOMAIN end_nodes |-> end_nodes[i].id],
                 remaining |-> DOMAIN nodes_map,
                 remaining_children |->
                    [id \in DOMAIN nodes_map |-> Len(nodes_map[id].outgoing_nodes)],
                 flow_node_map |-> EmptyMap,
                 start_node |-> ""])

\* ---------------------------------------------------------------------
\* Specification
\* ---------------------------------------------------------------------

\* The Schedule commands main sends before it starts the store listener,
\* one per scheduled flow, with the devices of that moment: none.
StartupCommands(flows) ==
    LET scheduled == ScheduledFlows(flows)
    IN  [i \in DOMAIN scheduled |->
            [command |-> Schedule(scheduled[i].id), sleep_devices |-> EmptyDeviceMap]]

\* No direct call has been made.
NoCall ==
    [fn |-> "", done |-> FALSE, flows |-> <<>>, devs |-> EmptyDeviceMap, reports |-> <<>>,
     command_map |-> EmptyMap, dispatched |-> {}, json |-> SerializedFlow("", <<>>),
     loaded |-> FlowFactoryError("", ""), runs |-> <<>>, input |-> <<>>, output |-> <<>>,
     closed |-> FALSE]

NoExecution ==
    Execution([id |-> ""], NoNodeId, ErrValue(""), "", "", "", EmptyScope, "ZERO", <<>>, <<>>)

InitProgram ==
    /\ devices = EmptyDeviceMap
    /\ eventQueue = <<>>
    /\ arrived = <<>>
    /\ applied = 0
    /\ notifier = [value |-> LiveSnapshot, version |-> 0]
    /\ watcher = [pc |-> "idle", seen |-> 0, woken_version |-> 0, pending |-> 0, wakes |-> 0,
                  coalesced |-> 0, runs |-> 0, snapshot |-> LiveSnapshot,
                  previous_version |-> 0, borrowed_version |-> 0, latest_version |-> 0,
                  held |-> EmptyDeviceMap, results |-> <<>>, read |-> EmptyDeviceMap,
                  merged |-> EmptyMap, dispatched |-> {}]
    /\ directory \in DOMAIN FlowDirectories
    /\ schedulerQueue = StartupCommands(FlowDirectories[directory])
    /\ scheduler = "running"
    /\ timers = <<>>
    /\ jobs = <<>>
    /\ clock = 0
    /\ lastScheduled = [valid |-> FALSE, flow_id |-> "", results |-> <<>>,
                        read |-> EmptyDeviceMap, merged |-> EmptyMap, dispatched |-> {}]
    /\ lastResume = [valid |-> FALSE, count |-> 0,
                     timer |-> [flow_id |-> "", node_id |-> "", delay |-> 0,
                                sleep_devices |-> EmptyDeviceMap, seq |-> 0],
                     exec |-> NoExecution, read |-> EmptyDeviceMap, latest |-> EmptyDeviceMap,
                     merged |-> EmptyMap, dispatched |-> {}]

\* The program after main has started its tasks.
Init == InitProgram /\ call = NoCall

Next ==
    \/ \E event \in HubEvents : HubSend(event)
    \/ StoreListen
    \/ WatcherChanged
    \/ WatcherBorrow
    \/ WatcherExecuteFlows
    \/ WatcherDispatch
    \/ SchedulerRecv
    \/ \E i \in 1..Len(timers) : TimerFire(i)
    \/ \E j \in 1..Len(jobs) : JobRun(j)

Spec == Init /\ [][Next]_vars

\* ---------------------------------------------------------------------
\* The store task on its own
\* ---------------------------------------------------------------------

\* Number of events the hub adapters send to the store on its own.
MaxStoreEvents == 3

\* The hub adapters and the store, the other tasks idle.
StoreNext ==
    \/ \E event \in HubEvents : HubSendWithin(event, MaxStoreEvents)
    \/ StoreListen

\* The store task is spawned on the runtime, which polls it whenever an
\* event waits on its channel.
StoreSpec == Init /\ [][StoreNext]_vars /\ WF_vars(StoreListen)

\* ---------------------------------------------------------------------
\* The store and its watcher
\* ---------------------------------------------------------------------

\* Number of events the hub adapters send to the store and its watcher.
MaxWatchEvents == 2

\* The events sent to the store and its watcher: the discoveries, which the
\* store publishes, and a property change.
WatchEvents ==
    {event \in HubEvents : event.type = "DiscoveredDevices"}
    \cup {BooleanPropertyChanged("lamp", "on", FALSE)}

\* The hub adapters, the store and the store_listener task.
WatchNext ==
    \/ \E event \in WatchEvents : HubSendWithin(event, MaxWatchEvents)
    \/ StoreListen
    \/ WatcherChanged
    \/ WatcherBorrow
    \/ WatcherExecuteFlows
    \/ WatcherDispatch

\* The store and the store_listener are tasks spawned on the runtime, which
\* polls each of them whenever it can proceed.
WatchSpec ==
    /\ Init /\ [][WatchNext]_vars
    /\ WF_vars(StoreListen)
    /\ WF_vars(WatcherChanged)
    /\ WF_vars(WatcherBorrow)
    /\ WF_vars(WatcherExecuteFlows)
    /\ WF_vars(WatcherDispatch)

\* ---------------------------------------------------------------------
\* Schedules on sun events
\* ---------------------------------------------------------------------

\* Weekday::all
WeekdayAll ==
    <<"Monday", "Tuesday", "Wednesday", "Thursday", "Friday", "Saturday", "Sunday">>

\* Weekday::as_index
WeekdayAsIndex(day) == (CHOOSE i \in DOMAIN WeekdayAll : WeekdayAll[i] = day) - 1

Specific(day) == [type |-> "Specific", days |-> <<day>>]

Range(start, end) == [type |-> "Range", days |-> <<start, end>>]

Set(days) == [type |-> "Set", days |-> days]

Weekdays == [type |-> "Weekdays", days |-> <<>>]

Weekend == [type |-> "Weekend", days |-> <<>>]

\* WeekdayCondition::included_days. The slice all[start..=end] of a range
\* panics when start is more than one past end, and is empty when it is
\* one past end.
IncludedDays(when) ==
    CASE when.type = "Specific" -> [panics |-> FALSE, days |-> when.days]
      [] when.type = "Range" ->
            LET start_index == WeekdayAsIndex(when.days[1])
                end_index == WeekdayAsIndex(when.days[2])
            IN  IF start_index > end_index + 1 THEN [panics |-> TRUE, days |-> <<>>]
                ELSE [panics |-> FALSE,
                      days |-> SubSeq(WeekdayAll, start_index + 1, end_index + 1)]
      [] when.type = "Set" -> [panics |-> FALSE, days |-> when.days]
      [] when.type = "Weekdays" ->
            [panics |-> FALSE,
             days |-> <<"Monday", "Tuesday", "Wednesday", "Thursday", "Friday">>]
      [] when.type = "Weekend" -> [panics |-> FALSE, days |-> <<"Saturday", "Sunday">>]

\* visit_str of the deserializer of WeekdayCondition on the words of the
\* string: "weekdays", "weekend", a weekday, or two weekdays around a '-',
\* which become a range in the order of the week or one day.
WeekdayConditionVisitStr(words) ==
    IF words = <<"weekdays">> THEN Weekdays
    ELSE IF words = <<"weekend">> THEN Weekend
    ELSE IF Len(words) = 1 THEN Specific(words[1])
    ELSE LET start_day == words[1]
             end_day == words[2]
         IN  IF start_day = end_day THEN Specific(start_day)
             ELSE IF WeekdayAsIndex(start_day) < WeekdayAsIndex(end_day)
             THEN Range(start_day, end_day)
             ELSE Range(end_day, start_day)

\* visit_seq of the deserializer of WeekdayCondition: the weekdays seen in
\* the array, in the order of the week.
WeekdayConditionVisitSeq(seq) ==
    Set(SelectSeq(WeekdayAll, LAMBDA weekday : \E i \in DOMAIN seq : seq[i] = weekday))

\* Deserialize for WeekdayCondition on a JSON string or array.
DeserializeWeekdayCondition(json) ==
    IF json.array THEN WeekdayConditionVisitSeq(json.items)
    ELSE WeekdayConditionVisitStr(json.items)

\* A DateTime<Utc>: the days since a Monday and the hour of the day.
DateTime(day, hour) == [day |-> day, hour |-> hour]

\* Datelike::weekday of chrono on a datetime.
ChronoWeekday(datetime) ==
    <<"Mon", "Tue", "Wed", "Thu", "Fri", "Sat", "Sun">>[(datetime.day % 7) + 1]

\* ToWeekday::to_weekday
ToWeekday(datetime) ==
    LET weekday == ChronoWeekday(datetime)
    IN  CASE weekday = "Mon" -> "Monday"
          [] weekday = "Tue" -> "Tuesday"
          [] weekday = "Wed" -> "Wednesday"
          [] weekday = "Thu" -> "Thursday"
          [] weekday = "Fri" -> "Friday"
          [] weekday = "Sat" -> "Saturday"
          [] weekday = "Sun" -> "Sunday"

\* Schedule::Sunrise and Schedule::Sunset
SunSchedule(solar_event, when, offset) ==
    [solar_event |-> solar_event, when |-> when, offset |-> offset]

\* SunEventIterator::new, as Schedule::after makes it.
SunEventIterator(schedule, from) ==
    [current |-> from, when |-> schedule.when, offset |-> schedule.offset,
     solar_event |-> schedule.solar_event]

\* SunEventIterator::event_time: the time of the sun event on the date, in
\* the timezone of the iterator, plus the offset.
EventTime(iter, date) ==
    [date |-> date, solar_event |-> iter.solar_event, offset |-> iter.offset]

\* current += Duration::days(1)
AddDay(datetime) == [datetime EXCEPT !.day = @ + 1]

\* The loop of next that starts a day late.
SunEventIteratorLoopFromTomorrow(iter, included_days, skipped) ==
    [outcome |-> "Some", item |-> EventTime(iter, iter.current.day + 1),
     iter |-> [iter EXCEPT !.current = AddDay(AddDay(@))]]

\* The loop of SunEventIterator::next: it returns the event time of the
\* first date from current on whose weekday is included, and never returns
\* when no weekday is.
RECURSIVE SunEventIteratorLoop(_, _, _)
SunEventIteratorLoop(iter, included_days, skipped) ==
    LET date == iter.current
        advanced == [iter EXCEPT !.current = AddDay(@)]
    IN  IF skipped = Len(WeekdayAll) THEN [outcome |-> "Diverges", item |-> <<>>, iter |-> iter]
        ELSE IF \A i \in DOMAIN included_days : included_days[i] # ToWeekday(date)
        THEN SunEventIteratorLoop(advanced, included_days, skipped + 1)
        ELSE [outcome |-> "Some", item |-> EventTime(iter, date.day), iter |-> advanced]

\* SunEventIterator::next
SunEventIteratorNext(iter) ==
    LET included == IncludedDays(iter.when)
    IN  IF included.panics THEN [outcome |-> "Panics", item |-> <<>>, iter |-> iter]
        ELSE SunEventIteratorLoop(iter, included.days, 0)

\* ---------------------------------------------------------------------
\* The job loops of the scheduler, with the clock
\* ---------------------------------------------------------------------

\* Number of events the hub adapters send while the job loops run.
MaxJobEvents == 1

\* The hub adapters, the store, the scheduler and its job loops over time.
JobNext ==
    \/ \E event \in HubEvents : HubSendWithin(event, MaxJobEvents)
    \/ StoreListen
    \/ SchedulerRecv
    \/ Tick
    \/ \E j \in 1..Len(jobs) : JobUpcoming(j)
    \/ \E j \in 1..Len(jobs) : JobWake(j)
    \/ \E j \in 1..Len(jobs) : JobReturn(j)

JobSpec == Init /\ [][JobNext]_vars

\* ---------------------------------------------------------------------
\* The scheduler task and the holders of its sender
\* ---------------------------------------------------------------------

\* Number of commands the scheduler takes up: the subtasks and the job
\* loops it has spawned and the commands waiting on its channel.
MaxCommands == 3

\* The commands sent to the scheduler: Schedule for a flow of the registry
\* or for an unknown flow id, ScheduleOnce as execute sends it for a sleep
\* node of a flow of the registry, and ScheduleOnce for an unknown flow id.
SchedulerCommands ==
    {Schedule(id) : id \in FlowIds \cup {"unknown"}}
    \cup {ScheduleOnce("unknown", "start", 42)}
    \cup UNION {{SleepCommand(LoadedFlows[i], LoadedFlows[i].nodes_by_id[n],
                              LoadedFlows[i].nodes_by_id[n].outgoing_nodes[1].node) :
                    n \in {m \in DOMAIN LoadedFlows[i].nodes_by_id :
                            LoadedFlows[i].nodes_by_id[m].kind = "Sleep"}} :
                 i \in DOMAIN LoadedFlows}

\* tx.send(command).await by a holder of a clone of the sender, while the
\* receiver is alive.
CommandSend(command) ==
    /\ SenderSend(scheduler = "returned")
    /\ lastResume.count + Len(timers) + Len(jobs) + Len(schedulerQueue) < MaxCommands
    /\ schedulerQueue' = Append(schedulerQueue, Envelope(command))
    /\ UNCHANGED <<devices, eventQueue, arrived, applied, notifier, watcher, scheduler,
                   timers, lastResume, directory, jobs, lastScheduled, call, clock>>

\* The scheduler, the subtasks and job loops it spawns, and the senders of
\* its commands.
SchedulerNext ==
    \/ \E command \in SchedulerCommands : CommandSend(command)
    \/ SchedulerRecv
    \/ \E i \in 1..Len(timers) : TimerFire(i)
    \/ \E j \in 1..Len(jobs) : JobRun(j)

\* The scheduler task and every subtask are spawned on the runtime, which
\* polls a task whenever it can proceed: the scheduler when a command
\* waits, a subtask when its sleep_until is over.
SchedulerSpec ==
    /\ Init /\ [][SchedulerNext]_vars
    /\ WF_vars(SchedulerRecv)
    /\ \A i \in 1..MaxCommands : WF_vars(TimerFire(i))

\* ---------------------------------------------------------------------
\* Direct calls of execute_flows, merge_command_maps and dispatch_commands
\* ---------------------------------------------------------------------

\* Flows built with Flow::new and FlowNode::new, as the tests of the engine
\* build them. An action node without an outgoing link:
DanglingFlow ==
    Flow("dangling", DefaultTrigger, "start",
         [n \in {"start", "a"} |->
            CASE n = "start" -> StartNode("start", <<FlowLink("a", NoneValue)>>)
              [] n = "a" -> ActionNode("a", <<>>,
                                ControlDeviceAction("lamp", [p \in {"bri"} |-> SetNumberValue(PositiveInt(2))]))])

\* A trigger on a device that is not in the store.
GhostFlow ==
    Flow("ghost", PropertyValue("ghost", "on"), "start",
         [n \in {"start", "a", "end"} |->
            CASE n = "start" -> StartNode("start", <<FlowLink("a", NoneValue)>>)
              [] n = "a" -> ActionNode("a", <<FlowLink("end", NoneValue)>>,
                                ControlDeviceAction("lamp", [p \in {"on"} |-> SetBooleanValue(TRUE)]))
              [] n = "end" -> EndNode("end")])

\* A flow that controls the desk device.
DeskFlow ==
    Flow("desk", DefaultTrigger, "start",
         [n \in {"start", "a", "end"} |->
            CASE n = "start" -> StartNode("start", <<FlowLink("a", NoneValue)>>)
              [] n = "a" -> ActionNode("a", <<FlowLink("end", NoneValue)>>,
                                ControlDeviceAction("desk", [p \in {"on"} |-> SetBooleanValue(TRUE)]))
              [] n = "end" -> EndNode("end")])

\* Flows that end in a node of the given kind without an outgoing link.
DeadEndFlow(kind) ==
    Flow("deadEnd" \o kind, DefaultTrigger, "start",
         IF kind = "Start" THEN [n \in {"start"} |-> StartNode("start", <<>>)]
         ELSE [n \in {"start", "a", "last"} |->
                CASE n = "start" -> StartNode("start", <<FlowLink("a", NoneValue)>>)
                  [] n = "a" -> ActionNode("a", <<FlowLink("last", NoneValue)>>,
                                    ControlDeviceAction("lamp", [p \in {"on"} |-> SetBooleanValue(TRUE)]))
                  [] n = "last" ->
                        CASE kind = "Action" ->
                                ActionNode("last", <<>>,
                                    ControlDeviceAction("desk", [p \in {"on"} |-> SetBooleanValue(TRUE)]))
                          [] kind = "Conditional" ->
                                ConditionalNode("last", <<>>, PropertyValue("lamp", "on"))
                          [] kind = "Sleep" -> SleepNode("last", <<>>, 42)])

\* A flow whose third action writes a property of the lamp that its first
\* action has written, with an action on the desk in between.
TwiceFlow ==
    Flow("twice", DefaultTrigger, "start",
         [n \in {"start", "a1", "a2", "a3", "end"} |->
            CASE n = "start" -> StartNode("start", <<FlowLink("a1", NoneValue)>>)
              [] n = "a1" -> ActionNode("a1", <<FlowLink("a2", NoneValue)>>,
                                ControlDeviceAction("lamp",
                                    [p \in {"on", "bri"} |->
                                        IF p = "on" THEN SetBooleanValue(TRUE)
                                        ELSE SetNumberValue(PositiveInt(1))]))
              [] n = "a2" -> ActionNode("a2", <<FlowLink("a3", NoneValue)>>,
                                ControlDeviceAction("desk", [p \in {"on"} |-> SetBooleanValue(TRUE)]))
              [] n = "a3" -> ActionNode("a3", <<FlowLink("end", NoneValue)>>,
                                ControlDeviceAction("lamp", [p \in {"bri"} |-> SetNumberValue(PositiveInt(2))]))
              [] n = "end" -> EndNode("end")])

\* The flows a direct call of execute may be given.
ExecuteFlowInputs ==
    {DeadEndFlow(kind) : kind \in {"Start", "Action", "Conditional", "Sleep"}}
    \cup {TwiceFlow, NapFlow, OnFlow}

\* A call of execute(flow, node_id, context, tx) to make.
ExecuteCall(flow, node_id, devs) ==
    [NoCall EXCEPT !.fn = "execute", !.input = <<flow, node_id>>, !.devs = devs]

\* The flows a direct call may be given.
EngineFlows == {OnFlow, OffFlow, CronFlow, DanglingFlow, GhostFlow, DeskFlow, NapFlow}

EngineFlowIds == {flow.id : flow \in EngineFlows}

EngineFlowById(id) == CHOOSE flow \in EngineFlows : flow.id = id

\* The largest batch of flows handed to execute_flows.
MaxBatch == 2

BatchInputs == UNION {[1..n -> EngineFlowIds] : n \in 1..MaxBatch}

\* The snapshots a direct call may be given.
SnapshotInputs ==
    { EmptyDeviceMap,
      ExtendDevices(EmptyDeviceMap, <<Lamp(TRUE)>>),
      ExtendDevices(EmptyDeviceMap, <<Lamp(TRUE), Desk("hue")>>),
      ExtendDevices(EmptyDeviceMap, <<Lamp(FALSE), Desk("")>>),
      ExtendDevices(EmptyDeviceMap, <<Lamp(FALSE), Desk("zigbee")>>),
      ExtendDevices(EmptyDeviceMap, <<Desk("zigbee")>>) }

\* The state of the program, which a direct call leaves alone.
program == <<devices, eventQueue, arrived, applied, notifier, watcher, schedulerQueue,
             scheduler, timers, lastResume, directory, jobs, lastScheduled, clock>>

\* A call of execute_flows(flows, snapshot, tx, location) to make.
ExecuteFlowsCall(flow_ids, devs) ==
    [NoCall EXCEPT !.fn = "execute_flows", !.flows = flow_ids, !.devs = devs]

\* A Result<FlowExecutionReport, FlowEngineError> with the given scope.
Report(result, scope) ==
    Execution([id |-> ""], NoNodeId, OkValue(BooleanValue(TRUE)), result,
              IF result = "Ok" THEN "" ELSE "MissingOutgoingNode", "", scope,
              IF result = "Ok" THEN "elapsed" ELSE "ZERO", <<>>, <<>>)

\* create_report of the tests of merge_command_maps: a scope that holds the
\* command map.
CommandScope(command_map) == [has_command_map |-> TRUE, command_map |-> command_map]

\* The command maps of the reports handed to merge_command_maps.
CommandMapInputs ==
    { [d \in {"lamp"} |-> [p \in {"on"} |-> SetBooleanValue(TRUE)]],
      [d \in {"lamp"} |-> [p \in {"on"} |-> SetBooleanValue(FALSE)]],
      [d \in {"lamp"} |-> [p \in {"bri"} |-> SetNumberValue(PositiveInt(2))]],
      [d \in {"lamp", "desk"} |->
            IF d = "lamp" THEN [p \in {"on", "bri"} |->
                                    IF p = "on" THEN ToggleBooleanValue
                                    ELSE SetNumberValue(PositiveInt(1))]
            ELSE [p \in {"on"} |-> SetBooleanValue(TRUE)]],
      [d \in {"desk"} |-> EmptyMap] }

ReportInputs ==
    {Report("Ok", EmptyScope)}
    \cup {Report("Ok", CommandScope(command_map)) : command_map \in CommandMapInputs}
    \cup {Report("Err", CommandScope(command_map)) : command_map \in CommandMapInputs}

\* The longest list of reports handed to merge_command_maps.
MaxReports == 2

\* A call of merge_command_maps(reports) to make.
MergeCommandMapsCall(reports) ==
    [NoCall EXCEPT !.fn = "merge_command_maps", !.reports = reports]

\* The command maps handed to dispatch_commands: any set of devices, each
\* with a command for one property.
DispatchInputs ==
    UNION {[ids -> {[p \in {"on"} |-> SetBooleanValue(TRUE)],
                    [p \in {"bri"} |-> SetNumberValue(PositiveInt(2))]}] :
           ids \in SUBSET DeviceIds}

\* A call of dispatch_commands(snapshot, command_map) to make.
DispatchCommandsCall(devs, command_map) ==
    [NoCall EXCEPT !.fn = "dispatch_commands", !.devs = devs, !.command_map = command_map]

\* The property-changed events handed to reduce_property_changed_event:
\* those of the hub adapters, and number events for a boolean property and
\* for a property without a range.
ReducerEvents ==
    {event \in HubEvents : event.type # "DiscoveredDevices"}
    \cup { NumberPropertyChanged("lamp", "on", PositiveInt(1)),
           NumberPropertyChanged("desk", "bri", PositiveInt(3)),
           BooleanPropertyChanged("desk", "on", TRUE) }

\* The numbers handed to the comparisons and to the addition: small ones
\* and the ones next to the ends of u64 and i64, in every variant.
NumberInputs ==
    {PositiveInt(v) : v \in {0, 1, 2, I64Max, I64Max + 1, U64Max - 1, U64Max}}
    \cup {NegativeInt(v) : v \in {I64Min, I64Min + 1, 0 - 2, 0 - 1, 0, 1, 2, I64Max - 1, I64Max}}
    \cup {Float(v) : v \in {0 - 1, 0, 1, 2, I64Max}}

\* A call of evaluate on the three expressions lhs <= rhs, lhs >= rhs and
\* lhs == rhs over two literal numbers.
CompareCall(a, b) == [NoCall EXCEPT !.fn = "compare", !.input = <<a, b>>]

\* The operands handed to And and Or: the literals of every variant and
\* the values of properties, which fail when the device is unknown.
LogicOperands ==
    { Literal(BooleanValue(TRUE)), Literal(BooleanValue(FALSE)),
      Literal(NumberValue(PositiveInt(2))), Literal(NoneValue),
      PropertyValue("lamp", "on"), PropertyValue("lamp", "bri") }

\* A call of evaluate on an And or an Or, with the devices of the context.
LogicCall(expression, devs) ==
    [NoCall EXCEPT !.fn = "logic", !.input = <<expression>>, !.devs = devs]

\* Number of datetimes taken from an iterator of sun events.
MaxSunEvents == 5

\* The conditions on the weekday a schedule may have.
WeekdayConditionInputs ==
    {Specific(day) : day \in {"Monday", "Friday", "Sunday"}}
    \cup {Range(WeekdayAll[i], WeekdayAll[j]) : i \in DOMAIN WeekdayAll, j \in DOMAIN WeekdayAll}
    \cup {Set(<<>>), Set(<<"Tuesday", "Wednesday", "Friday">>), Set(<<"Sunday", "Monday", "Sunday">>),
          Weekdays, Weekend}

\* The iterator of schedule.after(from, location), from which datetimes
\* are then taken.
SunEventsCall(schedule, from) ==
    [NoCall EXCEPT !.fn = "sun_events", !.input = <<schedule, from>>,
                   !.output = [iter |-> SunEventIterator(schedule, from), upcoming |-> <<>>,
                               outcome |-> "Some"]]

\* A call of lhs + rhs on two numbers.
AddCall(a, b) == [NoCall EXCEPT !.fn = "add", !.input = <<a, b>>]

\* A call of reduce_property_changed_event on the device map with the
\* device, the property and the setter of the event.
ReducePropertyChangedEventCall(devs, event) ==
    [NoCall EXCEPT !.fn = "reduce_property_changed_event", !.devs = devs, !.input = event]

\* The calls to make.
CallInputs ==
    {[ExecuteFlowsCall(flow_ids, devs) EXCEPT !.closed = closed] :
            flow_ids \in BatchInputs, devs \in SnapshotInputs, closed \in BOOLEAN}
    \cup {MergeCommandMapsCall(reports) :
            reports \in UNION {[1..n -> ReportInputs] : n \in 0..MaxReports}}
    \cup {DispatchCommandsCall(devs, command_map) :
            devs \in SnapshotInputs, command_map \in DispatchInputs}
    \cup {ReducePropertyChangedEventCall(devs, event) :
            devs \in SnapshotInputs, event \in ReducerEvents}
    \cup {CompareCall(a, b) : a \in NumberInputs, b \in NumberInputs}
    \cup UNION {{[ExecuteCall(flow, node_id, devs) EXCEPT !.closed = closed] :
                    node_id \in {NoNodeId} \cup {SomeNodeId(n) : n \in DOMAIN flow.nodes_by_id},
                    devs \in SnapshotInputs, closed \in BOOLEAN} : flow \in ExecuteFlowInputs}
    \cup {SunEventsCall(SunSchedule(solar_event, when, 0), DateTime(day, hour)) :
            solar_event \in {"Sunrise", "Sunset"}, when \in WeekdayConditionInputs,
            day \in 0..(Len(WeekdayAll) - 1), hour \in {12}}
    \cup {LogicCall(expression, devs) :
            expression \in {And(lhs, rhs) : lhs \in LogicOperands, rhs \in LogicOperands}
                           \cup {Or(lhs, rhs) : lhs \in LogicOperands, rhs \in LogicOperands},
            devs \in {EmptyDeviceMap, ExtendDevices(EmptyDeviceMap, <<Lamp(FALSE)>>)}}
    \cup {AddCall(a, b) : a \in NumberInputs, b \in NumberInputs}

\* merge_command_maps returns the merged map.
CallMergeCommandMaps ==
    /\ call.fn = "merge_command_maps" /\ ~call.done
    /\ call' = [call EXCEPT !.done = TRUE, !.command_map = MergeCommandMaps(call.reports)]
    /\ UNCHANGED program

\* execute_flows runs, merges and dispatches.
CallExecuteFlows ==
    /\ call.fn = "execute_flows" /\ ~call.done
    /\ \E order \in Permutations(DOMAIN call.flows) :
        LET snapshot == FrozenSnapshot(call.devs)
            flows == [i \in DOMAIN call.flows |-> EngineFlowById(call.flows[i])]
            batch == ExecuteFlows(flows, snapshot, order)
        IN  call' = [call EXCEPT
                !.done = TRUE,
                !.reports = batch.results,
                !.command_map = batch.command_map,
                !.dispatched = DispatchCommands(snapshot, batch.command_map)]
    /\ UNCHANGED program

CallInit == InitProgram /\ directory = "resources" /\ call \in CallInputs

\* dispatch_commands hands the commands to the controllers.
CallDispatchCommands ==
    /\ call.fn = "dispatch_commands" /\ ~call.done
    /\ call' = [call EXCEPT
            !.done = TRUE,
            !.dispatched = DispatchCommands(FrozenSnapshot(call.devs), call.command_map)]
    /\ UNCHANGED program

\* reduce_property_changed_event returns Ok or a ReducerError.
CallReducePropertyChangedEvent ==
    /\ call.fn = "reduce_property_changed_event" /\ ~call.done
    /\ LET event == call.input
       IN  call' = [call EXCEPT
                !.done = TRUE,
                !.output = ReducePropertyChangedEvent(call.devs, event.device_id,
                                event.property_id,
                                IF event.type = "BooleanPropertyChanged" THEN "Boolean"
                                ELSE "Number",
                                event)]
    /\ UNCHANGED program

\* evaluate on the comparisons of two literal numbers.
CallCompare ==
    /\ call.fn = "compare" /\ ~call.done
    /\ LET lhs == Literal(NumberValue(call.input[1]))
           rhs == Literal(NumberValue(call.input[2]))
           context == Context(FrozenSnapshot(EmptyDeviceMap))
       IN  call' = [call EXCEPT
                !.done = TRUE,
                !.output = [le |-> Evaluate(LessThanOrEqualTo(lhs, rhs), context),
                            ge |-> Evaluate(GreaterThanOrEqualTo(lhs, rhs), context),
                            lt |-> Evaluate(LessThan(lhs, rhs), context),
                            gt |-> Evaluate(GreaterThan(lhs, rhs), context),
                            eq |-> Evaluate(EqualTo(lhs, rhs), context)]]
    /\ UNCHANGED program

\* evaluate on an And or an Or, and on each of its operands alone.
CallLogic ==
    /\ call.fn = "logic" /\ ~call.done
    /\ LET expression == call.input[1]
           context == Context(FrozenSnapshot(call.devs))
       IN  call' = [call EXCEPT
                !.done = TRUE,
                !.output = [result |-> Evaluate(expression, context),
                            lhs |-> Evaluate(expression.lhs, context),
                            rhs |-> Evaluate(expression.rhs, context)]]
    /\ UNCHANGED program

\* One more datetime is taken from the iterator of sun events.
CallSunEventIteratorNext ==
    /\ call.fn = "sun_events" /\ ~call.done
    /\ LET next == SunEventIteratorNext(call.output.iter)
           upcoming == IF next.outcome = "Some" THEN Append(call.output.upcoming, next.item)
                       ELSE call.output.upcoming
       IN  call' = [call EXCEPT
                !.done = next.outcome # "Some" \/ Len(upcoming) = MaxSunEvents,
                !.output = [iter |-> next.iter, upcoming |-> upcoming,
                            outcome |-> next.outcome]]
    /\ UNCHANGED program

\* execute on a flow, from its start node or from the node named.
CallExecute ==
    /\ call.fn = "execute" /\ ~call.done
    /\ call' = [call EXCEPT
            !.done = TRUE,
            !.output = Execute(call.input[1], call.input[2],
                               Context(FrozenSnapshot(call.devs)))]
    /\ UNCHANGED program

\* The sum of two numbers.
CallAdd ==
    /\ call.fn = "add" /\ ~call.done
    /\ call' = [call EXCEPT !.done = TRUE, !.output = NumberAdd(call.input[1], call.input[2])]
    /\ UNCHANGED program

CallNext ==
    \/ CallCompare
    \/ CallExecute
    \/ CallSunEventIteratorNext
    \/ CallLogic
    \/ CallAdd
    \/ CallExecuteFlows
    \/ CallMergeCommandMaps
    \/ CallDispatchCommands
    \/ CallReducePropertyChangedEvent

CallSpec == CallInit /\ [][CallNext]_vars

\* ---------------------------------------------------------------------
\* Loading a flow and executing it
\* ---------------------------------------------------------------------

\* The longest list of nodes of a flow file that is enumerated.
MaxNodes == 3

\* The ids of the nodes of an enumerated flow file, by position.
NodeNames == <<"n1", "n2", "n3", "n4", "n5", "n6">>

\* What a node of a flow file of n nodes may be, its id left open: an end
\* node, a start, action or sleep node with a link to any node, or a
\* conditional node with a true link and a false link to any nodes.
NodeShapes(n) ==
    {[type |-> "endNode", outgoing_nodes |-> <<>>]}
    \cup {[type |-> type, outgoing_nodes |-> <<SerializedFlowLink(NodeNames[k], NoneValue)>>] :
            type \in {"startNode", "actionNode", "sleepNode"}, k \in 1..n}
    \cup {[type |-> "conditionalNode",
           outgoing_nodes |-> <<SerializedFlowLink(NodeNames[k], BooleanValue(TRUE)),
                                SerializedFlowLink(NodeNames[m], BooleanValue(FALSE))>>] :
            k, m \in 1..n}

\* The flow file of n nodes with the ids n1, n2, ... and the given shapes.
EnumeratedFlow(n, shape) ==
    SerializedFlow("flow",
        [i \in 1..n |-> SerializedFlowNode(shape[i].type, NodeNames[i], shape[i].outgoing_nodes)])

\* conditionalFlow.json, a flow file whose conditional node has two true
\* links, and flow files in which two nodes have the same id: a sleep node
\* or a conditional node without links in the place of an end node, an end
\* node in the place of a node that links to itself, an action node whose
\* successor is not built yet; flow files with a link to an id no node has,
\* one whose conditional node has the link values 2 and 2.0, and one with
\* two sleep nodes on its path.
WrittenFlows ==
    LET link(id) == SerializedFlowLink(id, NoneValue)
        when(id, b) == SerializedFlowLink(id, BooleanValue(b))
        node(type, id, outgoing) == SerializedFlowNode(type, id, outgoing)
    IN  { SerializedFlow("conditionalFlow",
            <<node("startNode", "startNode", <<link("conditionalNode")>>),
              node("conditionalNode", "conditionalNode",
                   <<when("endNodeTrue", TRUE), when("endNodeFalse", FALSE)>>),
              node("endNode", "endNodeTrue", <<>>),
              node("endNode", "endNodeFalse", <<>>)>>),
          SerializedFlow("duplicateLinkValues",
            <<node("startNode", "startNode", <<link("conditionalNode")>>),
              node("conditionalNode", "conditionalNode",
                   <<when("endNodeTrue", TRUE), when("endNodeFalse", TRUE)>>),
              node("endNode", "endNodeTrue", <<>>),
              node("endNode", "endNodeFalse", <<>>)>>),
          SerializedFlow("equalLinkNumbers",
            <<node("startNode", "startNode", <<link("conditionalNode")>>),
              node("conditionalNode", "conditionalNode",
                   <<SerializedFlowLink("endNodeInt", NumberValue(PositiveInt(2))),
                     SerializedFlowLink("endNodeFloat", NumberValue(Float(2)))>>),
              node("endNode", "endNodeInt", <<>>),
              node("endNode", "endNodeFloat", <<>>)>>),
          SerializedFlow("undeclaredTarget",
            <<node("startNode", "startNode", <<link("conditionalNode")>>),
              node("conditionalNode", "conditionalNode",
                   <<when("endNode", TRUE), when("undeclared", FALSE)>>),
              node("endNode", "endNode", <<>>)>>),
          SerializedFlow("sameIdUndeclaredTarget",
            <<node("endNode", "x", <<>>),
              node("actionNode", "x", <<link("undeclared")>>),
              node("startNode", "s", <<link("x")>>)>>),
          SerializedFlow("twoSleeps",
            <<node("startNode", "s", <<link("a")>>),
              node("actionNode", "a", <<link("z1")>>),
              node("sleepNode", "z1", <<link("b")>>),
              node("actionNode", "b", <<link("z2")>>),
              node("sleepNode", "z2", <<link("e")>>),
              node("endNode", "e", <<>>)>>),
          SerializedFlow("sameIdTwice",
            <<node("endNode", "x", <<>>),
              node("sleepNode", "x", <<link("y")>>),
              node("endNode", "y", <<>>),
              node("startNode", "s", <<link("x")>>)>>),
          SerializedFlow("sameIdNoEnd",
            <<node("endNode", "c", <<>>),
              node("conditionalNode", "c", <<>>),
              node("startNode", "s", <<link("c")>>)>>),
          SerializedFlow("sameIdCycle",
            <<node("actionNode", "x", <<link("x")>>),
              node("endNode", "x", <<>>),
              node("startNode", "s", <<link("x")>>)>>),
          SerializedFlow("sameIdUnbuilt",
            <<node("endNode", "y", <<>>),
              node("startNode", "s", <<link("x")>>),
              node("endNode", "x", <<>>),
              node("actionNode", "x", <<link("y")>>)>>) }

\* A call of from_json on the flow file, followed by execute on the flow.
FromJsonCall(flow) == [NoCall EXCEPT !.fn = "from_json", !.json = flow]

\* The nodes execute may be told to start at: None for the start node of
\* the flow, or the id of a node of the flow.
StartChoices(flow) == {NoNodeId} \cup {SomeNodeId(id) : id \in DOMAIN flow.nodes_by_id}

\* from_json loads the flow file; execute then runs the flow from each node
\* it may start at. The order in which the HashMap nodes_map is iterated is
\* open; the loop that iterates it is reached with one start node and an
\* end node only.
CallFromJson ==
    /\ call.fn = "from_json" /\ ~call.done
    /\ LET nodes == call.json.nodes
           reached ==
               /\ Cardinality({i \in DOMAIN nodes : nodes[i].type = "startNode"}) = 1
               /\ \E i \in DOMAIN nodes : nodes[i].type = "endNode"
       IN  \E order \in IF reached THEN IterationOrders(DOMAIN NodesMap(nodes)) ELSE {<<>>},
              collide \in TagCollisions(nodes) :
            LET loaded == FromJson(call.json, order, collide)
                context == Context(FrozenSnapshot(EmptyDeviceMap))
            IN  call' = [call EXCEPT
                    !.done = TRUE,
                    !.loaded = loaded,
                    !.runs = IF loaded.ok
                             THEN [start \in StartChoices(loaded.flow) |->
                                        Execute(loaded.flow, start, context)]
                             ELSE <<>>]
    /\ UNCHANGED program

\* The flow file to load: a written one, or any of up to MaxNodes nodes.
LoadInit ==
    /\ InitProgram
    /\ directory = "resources"
    /\ \/ \E flow \in WrittenFlows : call = FromJsonCall(flow)
       \/ \E n \in 1..MaxNodes : \E shape \in [1..n -> NodeShapes(n)] :
            call = FromJsonCall(EnumeratedFlow(n, shape))

LoadNext == CallFromJson

LoadSpec == LoadInit /\ [][LoadNext]_vars

\* ---------------------------------------------------------------------
\* Properties
\* ---------------------------------------------------------------------

\* The executions whose outcome is recorded in the state, each with the
\* devices it read through its context.
Executions ==
    {[exec |-> watcher.results[i], read |-> watcher.read] : i \in DOMAIN watcher.results}
    \cup (IF lastResume.valid THEN {[exec |-> lastResume.exec, read |-> lastResume.read]}
          ELSE {})

NodeOf(exec, id) == FlowById(exec.flow_id).nodes_by_id[id]

IsTrue(result) == result.ok /\ result.value = BooleanValue(TRUE)

\* C1: an execution that reaches a Conditional node evaluates its expression
\* and continues along the outgoing link whose value equals the result,
\* whatever the position of the link in the list.
C1_ConditionalFollowsMatchingLink ==
    \A x \in Executions : \A i \in DOMAIN x.exec.path :
        LET node == NodeOf(x.exec, x.exec.path[i].node)
            result == EvaluateIn(node.expression, x.read)
        IN  (node.kind = "Conditional" /\ result.ok) =>
                \A k \in DOMAIN node.outgoing_nodes :
                    ValueEq(node.outgoing_nodes[k].value, result.value) =>
                        x.exec.path[i].next = node.outgoing_nodes[k].node

\* C2: when the trigger of a flow evaluates to Boolean(false) or to a value
\* that is not a boolean, execute returns Ok with an empty scope and zero
\* duration, executes no node, sends no scheduler command and adds nothing
\* to the merged command map.
C2_TriggerNotTrueSkipsExecution ==
    \A x \in Executions :
        LET trigger == EvaluateIn(FlowById(x.exec.flow_id).trigger, x.read)
        IN  (trigger.ok /\ trigger.value # BooleanValue(TRUE)) =>
                /\ x.exec.result = "Ok"
                /\ ScopeIsEmpty(x.exec.scope)
                /\ x.exec.duration = "ZERO"
                /\ x.exec.path = <<>>
                /\ x.exec.sent = <<>>
                /\ DOMAIN MergeCommandMaps(<<x.exec>>) = {}

\* C2 witness: one batch ran a flow whose trigger was Boolean(false) and a
\* flow whose trigger was a number.
C2_Witness ==
    /\ \E x \in Executions :
        EvaluateIn(FlowById(x.exec.flow_id).trigger, x.read) = OkValue(BooleanValue(FALSE))
    /\ \E x \in Executions :
        LET trigger == EvaluateIn(FlowById(x.exec.flow_id).trigger, x.read)
        IN  trigger.ok /\ trigger.value.t = "Number"

\* The scope built by the actions among the first n steps of a path, read
\* against the devices devs.
RECURSIVE ScopeAfter(_, _, _, _)
ScopeAfter(exec, path, n, devs) ==
    IF n = 0 THEN EmptyScope
    ELSE LET before == ScopeAfter(exec, path, n - 1, devs)
             node == NodeOf(exec, path[n].node)
         IN  IF node.kind = "Action"
             THEN ActionExecute(node.action, Context(FrozenSnapshot(devs)), before)
             ELSE before

\* C3: an execution that reaches a Sleep node sends exactly one
\* ScheduleOnce with the flow id, the id of the successor of the sleep node
\* and the duration, executes no further node, and returns the scope built
\* by the actions before the sleep.
C3_SleepSchedulesSuccessorAndStops ==
    \A x \in Executions : \A i \in DOMAIN x.exec.path :
        LET node == NodeOf(x.exec, x.exec.path[i].node)
        IN  (node.kind = "Sleep" /\ node.outgoing_nodes # <<>>) =>
                /\ i = Len(x.exec.path)
                /\ x.exec.result = "Ok"
                /\ x.exec.sent = <<ScheduleOnce(x.exec.flow_id,
                                                node.outgoing_nodes[1].node, node.duration)>>
                /\ x.exec.scope = ScopeAfter(x.exec, x.exec.path, i - 1, x.read)

\* C3 witness: an execution ran an action that wrote a command and then
\* stopped at a sleep node.
C3_Witness ==
    \E x \in Executions :
        /\ x.exec.path # <<>>
        /\ NodeOf(x.exec, x.exec.path[Len(x.exec.path)].node).kind = "Sleep"
        /\ ~ScopeIsEmpty(x.exec.scope)

\* C4: a resumed execution evaluates the trigger against the devices read
\* at resume time; when it is not Boolean(true) then, no node is executed
\* and no command is sent, merged or dispatched.
C4_ResumeReevaluatesTrigger ==
    lastResume.valid =>
        LET trigger == EvaluateIn(FlowById(lastResume.exec.flow_id).trigger, lastResume.read)
        IN  ~IsTrue(trigger) =>
                /\ lastResume.exec.path = <<>>
                /\ lastResume.exec.sent = <<>>
                /\ DOMAIN lastResume.merged = {}
                /\ lastResume.dispatched = {}

\* C4 witness: a flow resumed with a trigger that is false, which was true
\* when the flow went to sleep.
C4_Witness ==
    /\ lastResume.valid
    /\ LET trigger == FlowById(lastResume.exec.flow_id).trigger
       IN  /\ IsTrue(EvaluateIn(trigger, lastResume.timer.sleep_devices))
           /\ EvaluateIn(trigger, lastResume.read) = OkValue(BooleanValue(FALSE))

\* C5: execute with a resume node id that names an End node, the trigger
\* being true, executes no node, sends no scheduler command and returns a
\* report with an empty scope.
C5_ResumeAtEndDoesNothing ==
    (/\ lastResume.valid
     /\ NodeOf(lastResume.exec, lastResume.timer.node_id).kind = "End"
     /\ IsTrue(EvaluateIn(FlowById(lastResume.exec.flow_id).trigger, lastResume.read))) =>
        /\ lastResume.exec.result = "Ok"
        /\ lastResume.exec.path = <<>>
        /\ lastResume.exec.sent = <<>>
        /\ ScopeIsEmpty(lastResume.exec.scope)

\* C5 witness: a flow was resumed at an End node with a true trigger.
C5_Witness ==
    /\ lastResume.valid
    /\ NodeOf(lastResume.exec, lastResume.timer.node_id).kind = "End"
    /\ IsTrue(lastResume.exec.trigger)

\* C6: the execution started by a ScheduleOnce reads the snapshot that is
\* the latest published when the delay elapses: its trigger is evaluated
\* against the devices of that snapshot, not against those read when the
\* sleep node was executed.
C6_ResumeReadsLatestSnapshot ==
    lastResume.valid =>
        /\ lastResume.read = lastResume.latest
        /\ lastResume.exec.trigger =
                EvaluateIn(FlowById(lastResume.exec.flow_id).trigger, lastResume.latest)

\* C6 witness: a flow resumed after the store changed during its sleep, the
\* change deciding its trigger.
C6_Witness ==
    /\ lastResume.valid
    /\ lastResume.timer.sleep_devices # lastResume.latest
    /\ LET trigger == FlowById(lastResume.exec.flow_id).trigger
       IN  EvaluateIn(trigger, lastResume.timer.sleep_devices) # lastResume.exec.trigger

C8_HeldSnapshotNeverChanges ==
    watcher.pc \in {"holding", "merged"} =>
        SnapshotDevices(watcher.snapshot) = watcher.held

\* The number of events among the first n on the channel for which the
\* store publishes.
RECURSIVE PublishedAmong(_, _)
PublishedAmong(events, n) ==
    IF n = 0 THEN 0
    ELSE PublishedAmong(events, n - 1) + (IF Publishes(events[n]) THEN 1 ELSE 0)

\* C9: after every event the store has processed, applied or ignored, it
\* has published on its notifier: one publication per processed event.
C9_PublishesAfterEveryEvent == notifier.version = applied

\* C10: the store applies the events in arrival order: its device map is
\* the fold of the reducer over the events taken so far, the events still
\* on the channel are the later arrivals in order, and the publications are
\* numbered in that order.
C10_EventsAppliedInArrivalOrder ==
    /\ applied <= Len(arrived)
    /\ devices = FoldEvents(EmptyDeviceMap, SubSeq(arrived, 1, applied))
    /\ eventQueue = SubSeq(arrived, applied + 1, Len(arrived))
    /\ notifier.version = PublishedAmong(arrived, applied)

\* C10 witness: the store has applied two events whose order matters.
C10_Witness ==
    /\ applied = 2
    /\ devices # FoldEvents(EmptyDeviceMap, <<arrived[2], arrived[1]>>)

\* Whether the report wrote the property of the device in its command map.
Wrote(report, d, p) ==
    /\ report.scope.has_command_map
    /\ d \in DOMAIN report.scope.command_map
    /\ p \in DOMAIN report.scope.command_map[d]

\* The reports of a batch that are Ok.
Successful(reports) == {i \in DOMAIN reports : reports[i].result = "Ok"}

\* C11: in a batch, a flow whose execution returns an error adds nothing to
\* the merged command map, not even what its actions wrote before the
\* error: every entry of the merged map was written by a successful flow.
\* What the successful flows wrote is merged, and dispatched for every
\* device of the snapshot that has a registered controller.
C11_ErroredFlowContributesNothing ==
    (call.fn = "execute_flows" /\ call.done) =>
        LET ok == Successful(call.reports)
        IN  /\ \A d \in DOMAIN call.command_map :
                /\ \E i \in ok : call.reports[i].scope.has_command_map
                                  /\ d \in DOMAIN call.reports[i].scope.command_map
                /\ \A p \in DOMAIN call.command_map[d] :
                        \E i \in ok :
                            /\ Wrote(call.reports[i], d, p)
                            /\ call.reports[i].scope.command_map[d][p] = call.command_map[d][p]
            /\ \A i \in ok : \A d \in DeviceIds : \A p \in PropertyIds :
                    Wrote(call.reports[i], d, p) =>
                        /\ d \in DOMAIN call.command_map
                        /\ p \in DOMAIN call.command_map[d]
                        /\ (HasDevice(call.devs, d)
                                /\ call.devs[d].controller_id \in ControllerRegistry) =>
                                \E c \in call.dispatched :
                                    c.device_id = d /\ p \in DOMAIN c.property

\* C11 witness: a batch in which one flow failed after its action had
\* written a command and another flow succeeded, whose command was
\* dispatched.
C11_Witness ==
    /\ call.fn = "execute_flows" /\ call.done
    /\ \E i \in DOMAIN call.reports :
            /\ call.reports[i].result = "Err"
            /\ call.reports[i].error = "MissingOutgoingNode"
            /\ Wrote(call.reports[i], "lamp", "bri")
    /\ \E i \in Successful(call.reports) : Wrote(call.reports[i], "lamp", "on")
    /\ \E c \in call.dispatched : c.device_id = "lamp" /\ DOMAIN c.property = {"on"}

\* The position in the list of the last successful report that wrote the
\* property of the device, 0 when there is none.
LastWriter(reports, d, p) ==
    LET writers == {i \in Successful(reports) : Wrote(reports[i], d, p)}
    IN  IF writers = {} THEN 0 ELSE CHOOSE i \in writers : \A k \in writers : k <= i

\* C12: merge_command_maps yields, for each device and property, the value
\* of the last successful report of the list that wrote the property; a
\* property that one report wrote keeps the value of that report, and a
\* property that no successful report wrote is not in the merged map.
C12_MergeKeepsLastWrite ==
    (call.fn \in {"merge_command_maps", "execute_flows"} /\ call.done) =>
        \A d \in DeviceIds : \A p \in PropertyIds :
            LET last == LastWriter(call.reports, d, p)
                merged == d \in DOMAIN call.command_map /\ p \in DOMAIN call.command_map[d]
            IN  IF last = 0 THEN ~merged
                ELSE /\ merged
                     /\ call.command_map[d][p] = call.reports[last].scope.command_map[d][p]

\* C12 witness: merge_command_maps was given two successful reports that
\* wrote different values to one property, the first of which also wrote a
\* property the second did not write.
C12_Witness ==
    /\ call.fn = "merge_command_maps" /\ call.done
    /\ Len(call.reports) = 2
    /\ LastWriter(call.reports, "lamp", "on") = 2
    /\ Wrote(call.reports[1], "lamp", "on")
    /\ call.reports[1].result = "Ok"
    /\ call.reports[1].scope.command_map["lamp"]["on"]
            # call.reports[2].scope.command_map["lamp"]["on"]
    /\ LastWriter(call.reports, "lamp", "bri") = 1

\* The values the successful reports of a batch wrote to a property.
WrittenValues(reports, d, p) ==
    {reports[i].scope.command_map[d][p] :
        i \in {k \in Successful(reports) : Wrote(reports[k], d, p)}}

\* C13: when flows of one batch of the watcher wrote different values to
\* the same property of a device, the device is sent one of the written
\* values: the value of the report that was merged last.
C13_ConflictResolvedByMergeOrder ==
    (watcher.runs >= 1 /\ watcher.pc # "merged") =>
        \A d \in DeviceIds : \A p \in PropertyIds :
            Cardinality(WrittenValues(watcher.results, d, p)) >= 2 =>
                LET last == LastWriter(watcher.results, d, p)
                    value == watcher.results[last].scope.command_map[d][p]
                IN  /\ \E c \in watcher.dispatched : c.device_id = d
                    /\ \A c \in watcher.dispatched :
                            c.device_id = d =>
                                /\ p \in DOMAIN c.property
                                /\ c.property[p] = value
                                /\ c.property[p] \in WrittenValues(watcher.results, d, p)

\* C13 witness: both outcomes in one state. The watcher has dispatched a
\* batch in which the value of the flow on won, and has merged the next
\* batch of the same two flows, in which the value of the flow off wins.
C13_Witness ==
    /\ watcher.pc = "merged"
    /\ watcher.runs >= 1
    /\ \E c \in watcher.dispatched :
            c.device_id = "lamp" /\ c.property = [p \in {"on"} |-> SetBooleanValue(TRUE)]
    /\ WrittenValues(watcher.results, "lamp", "on")
            = {SetBooleanValue(TRUE), SetBooleanValue(FALSE)}
    /\ watcher.merged["lamp"]["on"] = SetBooleanValue(FALSE)

\* The merged batches whose dispatch is recorded in the state: that of the
\* watcher, of the job loop that ran last and of the timer that fired last.
DispatchedBatches ==
    (IF watcher.runs >= 1 /\ watcher.pc # "merged"
     THEN {[merged |-> watcher.merged, dispatched |-> watcher.dispatched]} ELSE {})
    \cup (IF lastScheduled.valid
          THEN {[merged |-> lastScheduled.merged, dispatched |-> lastScheduled.dispatched]}
          ELSE {})
    \cup (IF lastResume.valid
          THEN {[merged |-> lastResume.merged, dispatched |-> lastResume.dispatched]}
          ELSE {})

\* C14: for each merged batch, of the watcher, of a scheduled run or of a
\* sleep resume, a device is sent at most one ControlDevice command, and
\* only a device of the merged map is sent one, with the properties merged
\* for it.
C14_OneCommandPerDevice ==
    \A batch \in DispatchedBatches :
        /\ \A d \in DeviceIds :
                Cardinality({c \in batch.dispatched : c.device_id = d}) <= 1
        /\ \A c \in batch.dispatched :
                /\ c.device_id \in DOMAIN batch.merged
                /\ c.property = batch.merged[c.device_id]

\* C14 witness: a scheduled run has sent the lamp one command that carries
\* two properties, and the watcher has dispatched a batch as well.
C14_Witness ==
    /\ lastScheduled.valid
    /\ \E c \in lastScheduled.dispatched :
            c.device_id = "lamp" /\ DOMAIN c.property = {"on", "bri"}
    /\ watcher.runs >= 1
    /\ watcher.pc = "idle"
    /\ watcher.dispatched # {}

\* C15: dispatch_commands hands a controller the command of a device entry
\* exactly when the device is in the snapshot and its controller is
\* registered; other entries are skipped, which stops the dispatch of no
\* other entry.
C15_DispatchOnlyKnownDeviceAndController ==
    (call.fn \in {"dispatch_commands", "execute_flows"} /\ call.done) =>
        /\ \A c \in call.dispatched :
                /\ c.device_id \in DOMAIN call.command_map
                /\ call.devs[c.device_id].present
                /\ call.devs[c.device_id].controller_id \in ControllerRegistry
                /\ c.controller_id = call.devs[c.device_id].controller_id
        /\ \A d \in DOMAIN call.command_map :
                (call.devs[d].present /\ call.devs[d].controller_id \in ControllerRegistry) =>
                    \E c \in call.dispatched :
                        c.device_id = d /\ c.property = call.command_map[d]

\* C15 witness: a batch with an entry for a device that is not in the
\* snapshot, an entry for a device whose controller is not registered and
\* an entry for a device with a registered controller, which was sent its
\* command.
C15_Witness ==
    /\ call.fn = "dispatch_commands" /\ call.done
    /\ DOMAIN call.command_map = {"ghost", "desk", "lamp"}
    /\ ~call.devs["ghost"].present
    /\ call.devs["desk"].present /\ call.devs["desk"].controller_id = "zigbee"
    /\ {c.device_id : c \in call.dispatched} = {"lamp"}

C18_NoMatchingLinkFails ==
    \A x \in Executions : \A i \in DOMAIN x.exec.path :
        LET node == NodeOf(x.exec, x.exec.path[i].node)
            result == EvaluateIn(node.expression, x.read)
        IN  (/\ node.kind = "Conditional"
             /\ result.ok
             /\ \A k \in DOMAIN node.outgoing_nodes :
                    ~ValueEq(node.outgoing_nodes[k].value, result.value)) =>
                /\ x.exec.result = "Err"
                /\ x.exec.error = "MissingOutgoingNode"
                /\ x.exec.err_node = node.id

\* C19: a NumberPropertyChanged event for a numeric property of a known
\* device is applied whatever the range of the property: once the store has
\* handled the event, the stored value is the observed value.
C19_ObservedNumberApplied ==
    applied >= 1 =>
        LET event == arrived[applied]
        IN  (/\ event.type = "NumberPropertyChanged"
             /\ HasDevice(devices, event.device_id)
             /\ HasProperty(devices[event.device_id], event.property_id)
             /\ devices[event.device_id].properties[event.property_id].kind = "Number") =>
                NumberEq(devices[event.device_id].properties[event.property_id].nvalue,
                         event.n)

\* Whether the device map shows the value of a property-changed event.
Shows(devs, event) ==
    /\ HasDevice(devs, event.device_id)
    /\ HasProperty(devs[event.device_id], event.property_id)
    /\ LET property == devs[event.device_id].properties[event.property_id]
       IN  IF event.type = "BooleanPropertyChanged" THEN property.bvalue = event.b
           ELSE NumberEq(property.nvalue, event.n)

\* The device map the store holds when it takes the n-th event.
DevicesBefore(n) == FoldEvents(EmptyDeviceMap, SubSeq(arrived, 1, n - 1))

\* The n-th event is a valid property change that arrived after an event
\* the store drops.
ValidAfterDropped(n) ==
    /\ Len(arrived) >= n
    /\ arrived[n].type # "DiscoveredDevices"
    /\ ~Drops(DevicesBefore(n), arrived[n])
    /\ \E i \in 1..(n - 1) : Drops(DevicesBefore(i), arrived[i])

\* C20: after an event that it drops, the store keeps consuming the channel:
\* every valid event that arrives later and waits on the channel is
\* eventually taken, and the device map then shows it.
C20_ValidEventAfterDroppedIsApplied ==
    \A n \in 1..MaxStoreEvents :
        (ValidAfterDropped(n) /\ applied < n)
            ~> (applied = n /\ Shows(devices, arrived[n]))

\* C20 witness: the store has dropped an event and then applied a valid one.
C20_Witness ==
    /\ applied >= 2
    /\ ValidAfterDropped(applied)
    /\ Shows(devices, arrived[applied])
    /\ devices # DevicesBefore(applied)

\* C17: for every flow the loader accepts and every node execute may start
\* at, execute terminates and executes each node at most once: the number
\* of node executions is at most the number of nodes of the flow.
C17_ExecuteVisitsEachNodeAtMostOnce ==
    (call.fn = "from_json" /\ call.done /\ call.loaded.ok) =>
        \A start \in DOMAIN call.runs :
            LET exec == call.runs[start]
            IN  /\ exec.result \in {"Ok", "Err"}
                /\ Len(exec.path) <= Cardinality(DOMAIN call.loaded.flow.nodes_by_id)
                /\ \A i, j \in DOMAIN exec.path :
                        exec.path[i].node = exec.path[j].node => i = j

\* C17 witness: an accepted flow of at least three nodes that execute runs
\* from its start node over two nodes up to a sleep node, and again from the
\* node after the sleep node.
C17_Witness ==
    /\ call.fn = "from_json" /\ call.done /\ call.loaded.ok
    /\ Cardinality(DOMAIN call.loaded.flow.nodes_by_id) >= 3
    /\ Len(call.runs[NoNodeId].path) >= 2
    /\ \E id \in DOMAIN call.loaded.flow.nodes_by_id :
            /\ call.runs[NoNodeId].sent # <<>>
            /\ call.runs[NoNodeId].sent[1].node_id = id
            /\ call.runs[SomeNodeId(id)].result = "Ok"

\* C21: a property-changed event that names an unknown device, an unknown
\* property or a property of another variant than the event's returns the
\* matching reducer error and leaves every device and property unchanged.
C21_BadEventReturnsErrorAndChangesNothing ==
    (call.fn = "reduce_property_changed_event" /\ call.done) =>
        LET event == call.input
            kind == IF event.type = "BooleanPropertyChanged" THEN "Boolean" ELSE "Number"
            unknown_device == ~call.devs[event.device_id].present
            unknown_property ==
                ~unknown_device
                /\ event.property_id \notin DOMAIN call.devs[event.device_id].properties
            other_variant ==
                /\ ~unknown_device /\ ~unknown_property
                /\ call.devs[event.device_id].properties[event.property_id].kind # kind
        IN  /\ unknown_device => call.output.error = "UnknownDevice"
            /\ unknown_property => call.output.error = "UnknownProperty"
            /\ other_variant => call.output.error = "IncorrectPropertyType"
            /\ (unknown_device \/ unknown_property \/ other_variant) =>
                    call.output.devices = call.devs

\* C21 witness: a number event for the boolean property of a known device
\* has been refused.
C21_Witness ==
    /\ call.fn = "reduce_property_changed_event" /\ call.done
    /\ call.input.type = "NumberPropertyChanged"
    /\ call.devs[call.input.device_id].present
    /\ call.input.property_id \in DOMAIN call.devs[call.input.device_id].properties
    /\ call.devs[call.input.device_id].properties[call.input.property_id].kind = "Boolean"
    /\ call.output.error = "IncorrectPropertyType"

\* The nodes of a flow with the given kind.
NodesOfKind(flow, kind) == {id \in DOMAIN flow.nodes_by_id : flow.nodes_by_id[id].kind = kind}

\* The links of a flow that lead to the node, each as its source and its
\* position among the outgoing links of the source.
IncomingLinks(flow, id) ==
    UNION {{<<source, i>> : i \in {k \in DOMAIN flow.nodes_by_id[source].outgoing_nodes :
                                    flow.nodes_by_id[source].outgoing_nodes[k].node = id}} :
           source \in DOMAIN flow.nodes_by_id}

\* The nodes that the links of the flow lead to from the nodes of the set.
RECURSIVE ReachableFrom(_, _)
ReachableFrom(flow, nodes) ==
    LET next == nodes \cup
                UNION {{flow.nodes_by_id[id].outgoing_nodes[i].node :
                            i \in DOMAIN flow.nodes_by_id[id].outgoing_nodes} : id \in nodes}
    IN  IF next = nodes THEN nodes ELSE ReachableFrom(flow, next)

\* C22: every flow from_json accepts has exactly one Start node, at least
\* one End node, exactly one incoming link for every node that is not the
\* start node, and every node reachable from the start node.
C22_AcceptedFlowShape ==
    (call.fn = "from_json" /\ call.done /\ call.loaded.ok) =>
        LET flow == call.loaded.flow
        IN  /\ Cardinality(NodesOfKind(flow, "Start")) = 1
            /\ NodesOfKind(flow, "End") # {}
            /\ \A id \in DOMAIN flow.nodes_by_id \ NodesOfKind(flow, "Start") :
                    Cardinality(IncomingLinks(flow, id)) = 1
            /\ ReachableFrom(flow, {flow.start_node}) = DOMAIN flow.nodes_by_id

\* The ids that the links of the nodes of a flow document lead to from the
\* ids of the set, in one step or more.
RECURSIVE DocumentSuccessors(_, _)
DocumentSuccessors(nodes, ids) ==
    LET step(from) == UNION {{nodes[i].outgoing_nodes[k].node_id :
                                k \in DOMAIN nodes[i].outgoing_nodes} :
                             i \in {n \in DOMAIN nodes : nodes[n].id \in from}}
        next == ids \cup step(ids)
    IN  IF next = ids THEN ids ELSE DocumentSuccessors(nodes, next)

\* The links of the flow document contain a cycle.
DocumentHasCycle(nodes) ==
    \E i \in DOMAIN nodes :
        nodes[i].id \in DocumentSuccessors(nodes,
            {nodes[i].outgoing_nodes[k].node_id : k \in DOMAIN nodes[i].outgoing_nodes})

\* A set as a sequence, in some order.
RECURSIVE SeqOf(_)
SeqOf(set) ==
    IF set = {} THEN <<>>
    ELSE LET x == CHOOSE x \in set : TRUE IN <<x>> \o SeqOf(set \ {x})

\* The reverse walk over a flow: from the end nodes to the parent of a node
\* once all the nodes the parent links to have been visited. The result is
\* the sequence of the nodes visited.
RECURSIVE ReverseWalk(_, _, _, _)
ReverseWalk(flow, to_visit, pending, visited) ==
    IF to_visit = <<>> THEN visited
    ELSE LET id == to_visit[Len(to_visit)]
             rest == SubSeq(to_visit, 1, Len(to_visit) - 1)
             parents == {link[1] : link \in IncomingLinks(flow, id)}
             ready == {parent \in parents : pending[parent] = 1}
         IN  ReverseWalk(flow, rest \o SeqOf(ready),
                         [n \in DOMAIN pending |->
                            IF n \in parents /\ pending[n] > 0 THEN pending[n] - 1
                            ELSE pending[n]],
                         Append(visited, id))

\* C23: from_json returns an error for every flow document whose links
\* contain a cycle, and in every flow it accepts the reverse walk from the
\* end nodes along the parent links visits every node exactly once.
C23_CyclesRejected ==
    (call.fn = "from_json" /\ call.done) =>
        /\ DocumentHasCycle(call.json.nodes) => ~call.loaded.ok
        /\ call.loaded.ok =>
                LET flow == call.loaded.flow
                    visited == ReverseWalk(flow, SeqOf(NodesOfKind(flow, "End")),
                                   [id \in DOMAIN flow.nodes_by_id |->
                                        Len(flow.nodes_by_id[id].outgoing_nodes)],
                                   <<>>)
                IN  /\ {visited[i] : i \in DOMAIN visited} = DOMAIN flow.nodes_by_id
                    /\ \A i, j \in DOMAIN visited : visited[i] = visited[j] => i = j

IsInteger(n) == n.variant \in {"PositiveInt", "NegativeInt"}

\* C24: for all numbers a and b of any variants, a <= b and b <= a imply
\* a == b, so that LessThanOrEqualTo, GreaterThanOrEqualTo and EqualTo agree
\* on every pair of numbers.
C24_OrderAgreesWithEquality ==
    (call.fn = "compare" /\ call.done) =>
        /\ call.output.le.ok /\ call.output.ge.ok /\ call.output.eq.ok
        /\ (call.output.le.value.b /\ call.output.ge.value.b) <=> call.output.eq.value.b

\* C25: the sum of two integer numbers never wraps around: it is the
\* mathematical sum of the operands, or the nearest bound when the sum is
\* out of range (i64::MIN for a NegativeInt result, u64::MAX for a
\* PositiveInt result).
C25_IntegerAdditionSaturates ==
    (call.fn = "add" /\ call.done /\ IsInteger(call.input[1]) /\ IsInteger(call.input[2])) =>
        LET sum == call.input[1].v + call.input[2].v
            lowest == I64Min
            highest == IF call.input[1].variant = "NegativeInt"
                          /\ call.input[2].variant = "NegativeInt"
                       THEN I64Max ELSE U64Max
        IN  /\ IsInteger(call.output)
            /\ call.output.v = IF sum > highest THEN highest
                                ELSE IF sum < lowest THEN lowest ELSE sum

\* The datetimes of the schedule later than a and not later than b.
DatetimesBetween(a, b) == {d \in (a + 1)..b : d % CronPeriod = 0}

\* C26: the job loop of a scheduled flow runs the flow once for each
\* datetime of the schedule that is not yet past when the loop reaches it,
\* not before that datetime, and skips every datetime that is past then;
\* an execution starts after the one before has returned, and it reads the
\* devices of the snapshot that is the latest when the timer fires.
C26_JobRunsOncePerFutureDatetime ==
    \A j \in DOMAIN jobs :
        LET job == jobs[j]
            runs == job.runs
        IN  /\ \A k \in DOMAIN runs :
                    /\ runs[k].reached <= runs[k].datetime
                    /\ runs[k].woke # NoDatetime =>
                            /\ runs[k].woke >= runs[k].datetime
                            /\ runs[k].read = runs[k].latest
                    /\ k < Len(runs) =>
                            /\ runs[k].datetime < runs[k + 1].datetime
                            /\ runs[k].returned # NoDatetime
                            /\ runs[k].woke <= runs[k].returned
                            /\ runs[k].returned <= runs[k + 1].reached
            /\ \A skip \in job.skipped : skip.datetime < skip.reached
            /\ job.created # NoDatetime =>
                    DatetimesBetween(job.created, job.previous) =
                        {runs[k].datetime : k \in DOMAIN runs}
                        \cup {skip.datetime : skip \in job.skipped}
            /\ {runs[k].datetime : k \in DOMAIN runs}
                    \cap {skip.datetime : skip \in job.skipped} = {}

\* C26 witness: a job loop has run its flow, skipped a datetime that passed
\* during that execution and run the flow again, the devices having changed
\* between the two executions.
C26_Witness ==
    \E j \in DOMAIN jobs :
        LET runs == jobs[j].runs
        IN  /\ Len(runs) >= 2
            /\ runs[2].woke # NoDatetime
            /\ runs[1].read # runs[2].read
            /\ \E skip \in jobs[j].skipped :
                    runs[1].datetime < skip.datetime /\ skip.datetime < runs[2].datetime

IsBoolean(result) == result.ok /\ result.value.t = "Boolean"

\* C27: And and Or are strict: when either operand evaluates to an error or
\* to a value that is not a boolean, the expression evaluates to an error,
\* also when the other operand alone decides the result; otherwise it
\* evaluates to the conjunction or the disjunction of the two booleans.
C27_LogicIsStrict ==
    (call.fn = "logic" /\ call.done) =>
        LET lhs == call.output.lhs
            rhs == call.output.rhs
            result == call.output.result
        IN  IF IsBoolean(lhs) /\ IsBoolean(rhs)
            THEN result = OkValue(BooleanValue(
                    IF call.input[1].type = "And" THEN lhs.value.b /\ rhs.value.b
                    ELSE lhs.value.b \/ rhs.value.b))
            ELSE ~result.ok

\* C27 witness: And of a false operand and an operand that fails, and Or of
\* a true operand and one that is not a boolean, evaluated to an error.
C27_Witness ==
    /\ call.fn = "logic" /\ call.done
    /\ ~call.output.result.ok
    /\ \/ /\ call.input[1].type = "And"
          /\ call.output.lhs = OkValue(BooleanValue(FALSE))
          /\ ~call.output.rhs.ok
       \/ /\ call.input[1].type = "Or"
          /\ call.output.lhs = OkValue(BooleanValue(TRUE))
          /\ call.output.rhs.ok /\ call.output.rhs.value.t # "Boolean"

\* The weekday of a day counted from a Monday.
WeekdayOfDay(day) == WeekdayAll[(day % Len(WeekdayAll)) + 1]

\* C28: the datetimes taken from the iterator of a sunrise or sunset
\* schedule started at from are the event times of the days from the day of
\* from on whose weekday is in when.included_days(), one per such day, in
\* increasing order of the day, and of no other day.
C28_SunEventsOnIncludedDays ==
    (call.fn = "sun_events" /\ ~IncludedDays(call.input[1].when).panics) =>
        LET upcoming == call.output.upcoming
            from == call.input[2]
            included == IncludedDays(call.input[1].when).days
            Included(day) == \E i \in DOMAIN included : included[i] = WeekdayOfDay(day)
            visited == from.day..(call.output.iter.current.day - 1)
        IN  /\ \A k \in DOMAIN upcoming :
                    /\ upcoming[k].date >= from.day
                    /\ Included(upcoming[k].date)
                    /\ upcoming[k].solar_event = call.input[1].solar_event
                    /\ k < Len(upcoming) => upcoming[k].date < upcoming[k + 1].date
            /\ \A day \in visited :
                    Included(day) => \E k \in DOMAIN upcoming : upcoming[k].date = day
            /\ upcoming # <<>> =>
                    call.output.iter.current.day = upcoming[Len(upcoming)].date + 1

\* C28 witness: Range(Wednesday, Friday) started on a Friday has yielded a
\* Friday, a Wednesday, a Thursday, a Friday and a Wednesday.
C28_Witness ==
    /\ call.fn = "sun_events"
    /\ call.input[1].when = Range("Wednesday", "Friday")
    /\ WeekdayOfDay(call.input[2].day) = "Friday"
    /\ [k \in DOMAIN call.output.upcoming |-> WeekdayOfDay(call.output.upcoming[k].date)]
            = <<"Friday", "Wednesday", "Thursday", "Friday", "Wednesday">>
    /\ [k \in DOMAIN call.output.upcoming |->
            call.output.upcoming[k].date - call.input[2].day] = <<0, 5, 6, 7, 12>>

\* C29: when an execution comes to a Start, Action, Conditional or Sleep
\* node that has no outgoing link, execute fails with MissingOutgoingNode
\* of the id of that node, and no ScheduleOnce is sent for a Sleep node
\* without a link.
C29_NodeWithoutLinkFails ==
    (call.fn = "execute" /\ call.done) =>
        LET flow == call.input[1]
            x == call.output
        IN  \A k \in DOMAIN x.path :
                LET node == flow.nodes_by_id[x.path[k].node]
                IN  (node.kind # "End" /\ node.outgoing_nodes = <<>>) =>
                        /\ x.result = "Err"
                        /\ x.error = "MissingOutgoingNode"
                        /\ x.err_node = node.id
                        /\ x.sent = <<>>
                        /\ k = Len(x.path)

\* C29 witness: an execution resumed at a Sleep node without a link has
\* failed on that node.
C29_Witness ==
    /\ call.fn = "execute" /\ call.done
    /\ call.output.path # <<>>
    /\ LET last == call.input[1].nodes_by_id[call.output.path[Len(call.output.path)].node]
       IN  /\ last.kind = "Sleep"
           /\ last.outgoing_nodes = <<>>
           /\ call.output.err_node = last.id

\* The nodes of the path of an execution that have run a ControlDeviceAction
\* on a device of the snapshot, as indexes into the path.
WritesOf(flow, x, devs) ==
    {k \in DOMAIN x.path :
        LET node == flow.nodes_by_id[x.path[k].node]
        IN  /\ node.kind = "Action"
            /\ node.action.kind = "controlDevice"
            /\ HasDevice(devs, node.action.device_id)}

\* C30: in the report of an execution, each property of each device holds
\* the value written by the last ControlDeviceAction node on the path that
\* writes it: a later node replaces the value of an earlier one, and what
\* earlier nodes wrote to other properties and devices is kept.
C30_LaterWriteWinsInExecution ==
    (call.fn = "execute" /\ call.done /\ call.output.result = "Ok") =>
        LET flow == call.input[1]
            x == call.output
            writes == WritesOf(flow, x, call.devs)
            Action(k) == flow.nodes_by_id[x.path[k].node].action
            Writers(d, p) == {k \in writes : Action(k).device_id = d /\ p \in DOMAIN Action(k).property}
            Last(set) == CHOOSE k \in set : \A other \in set : other <= k
        IN  /\ DOMAIN x.scope.command_map = {Action(k).device_id : k \in writes}
            /\ \A d \in DOMAIN x.scope.command_map :
                    /\ DOMAIN x.scope.command_map[d] =
                            UNION {DOMAIN Action(k).property : k \in {w \in writes : Action(w).device_id = d}}
                    /\ \A p \in DOMAIN x.scope.command_map[d] :
                            x.scope.command_map[d][p] = Action(Last(Writers(d, p))).property[p]

\* C30 witness: two nodes of an execution wrote one property of a device,
\* the first also another property, and a node in between another device.
C30_Witness ==
    /\ call.fn = "execute" /\ call.done /\ call.output.result = "Ok"
    /\ LET flow == call.input[1]
           x == call.output
           writes == WritesOf(flow, x, call.devs)
           Action(k) == flow.nodes_by_id[x.path[k].node].action
       IN  \E first \in writes, between \in writes, later \in writes :
                /\ first < between /\ between < later
                /\ Action(first).device_id = Action(later).device_id
                /\ Action(between).device_id # Action(first).device_id
                /\ \E p \in DOMAIN Action(first).property \cap DOMAIN Action(later).property :
                        Action(first).property[p] # Action(later).property[p]
                /\ DOMAIN Action(first).property \ DOMAIN Action(later).property # {}

\* The node an execution stopped at is a Sleep node with an outgoing link.
StoppedAtSleep(flow, x) ==
    /\ x.path # <<>>
    /\ LET last == flow.nodes_by_id[x.path[Len(x.path)].node]
       IN  last.kind = "Sleep" /\ last.outgoing_nodes # <<>>

\* C31: when the channel of the scheduler is closed, an execution that comes
\* to a Sleep node fails with FailedScheduleSleepCommand and sends nothing,
\* and what its actions wrote before the sleep is neither merged nor
\* dispatched: the batch merges and dispatches as if that flow were absent.
C31_ClosedSinkFailsSleep ==
    /\ (call.fn = "execute" /\ call.done /\ call.closed
            /\ StoppedAtSleep(call.input[1], call.output)) =>
            /\ call.output.result = "Err"
            /\ call.output.error = "FailedScheduleSleepCommand"
            /\ call.output.sent = <<>>
    /\ (call.fn = "execute_flows" /\ call.done /\ call.closed) =>
            LET Slept(i) == StoppedAtSleep(EngineFlowById(call.reports[i].flow_id),
                                           call.reports[i])
                others == SelectSeq(call.reports,
                            LAMBDA x : ~StoppedAtSleep(EngineFlowById(x.flow_id), x))
            IN  /\ \A i \in DOMAIN call.reports : Slept(i) =>
                        /\ call.reports[i].result = "Err"
                        /\ call.reports[i].error = "FailedScheduleSleepCommand"
                        /\ call.reports[i].sent = <<>>
                /\ call.command_map = MergeCommandMaps(others)
                /\ call.dispatched =
                        DispatchCommands(FrozenSnapshot(call.devs), MergeCommandMaps(others))

\* C31 witness: a batch run with a closed channel in which a flow wrote a
\* command for a device with a controller and then came to a Sleep node,
\* and nothing was dispatched for that device.
C31_Witness ==
    /\ call.fn = "execute_flows" /\ call.done /\ call.closed
    /\ \E i \in DOMAIN call.reports :
            /\ StoppedAtSleep(EngineFlowById(call.reports[i].flow_id), call.reports[i])
            /\ call.reports[i].error = "FailedScheduleSleepCommand"
            /\ \E d \in DOMAIN call.reports[i].scope.command_map :
                    /\ HasDevice(call.devs, d)
                    /\ ControllerRegistryGet(call.devs[d].controller_id)
                    /\ \A c \in call.dispatched : c.device_id # d

\* C32: in every flow from_json accepts the link values of each node are
\* pairwise distinct under the equality of Value, which compares numbers
\* numerically across variants; a document with two equal link values on
\* one node is rejected with DuplicateLinkValues.
C32_LinkValuesPairwiseDistinct ==
    (call.fn = "from_json" /\ call.done /\ call.loaded.ok) =>
        \A id \in DOMAIN call.loaded.flow.nodes_by_id :
            LET links == call.loaded.flow.nodes_by_id[id].outgoing_nodes
            IN  \A i, j \in DOMAIN links :
                    ValueEq(links[i].value, links[j].value) => i = j

\* The nodes of a flow document with a link to an id that no node of the
\* document declares.
UndeclaredTargets(nodes) ==
    {k \in DOMAIN nodes :
        \E i \in DOMAIN nodes[k].outgoing_nodes :
            \A m \in DOMAIN nodes : nodes[m].id # nodes[k].outgoing_nodes[i].node_id}

\* C33: when a link of a node names an id that no node of the document
\* declares, from_json returns the error MissingNode, naming a node with
\* such a link.
C33_UndeclaredTargetIsMissingNode ==
    (call.fn = "from_json" /\ call.done /\ UndeclaredTargets(call.json.nodes) # {}) =>
        /\ ~call.loaded.ok
        /\ call.loaded.error = "MissingNode"
        /\ \E k \in UndeclaredTargets(call.json.nodes) :
                call.loaded.node = call.json.nodes[k].id

\* The executions of a flow from its start node on: the first one and, as
\* long as an execution sends a ScheduleOnce command, the resumed execution
\* at the node the command names; at most fuel resumed executions.
RECURSIVE ResumeChain(_, _, _)
ResumeChain(runs, start, fuel) ==
    LET x == runs[start]
    IN  IF fuel = 0 \/ x.sent = <<>> THEN <<x>>
        ELSE <<x>> \o ResumeChain(runs, SomeNodeId(x.sent[1].node_id), fuel - 1)

\* The node executions of a sequence of executions, in order.
RECURSIVE StepsOf(_)
StepsOf(chain) ==
    IF chain = <<>> THEN <<>> ELSE Head(chain).path \o StepsOf(Tail(chain))

\* C34: over the first execution of an accepted flow and the resumed
\* executions it schedules through sleep nodes, the nodes are executed in
\* the order of the path taken and each once: the steps start at the start
\* node, each next step is at the node the step before it led to, no node
\* is executed twice, and a resumed execution starts at the successor of
\* the sleep node the execution before it ended at.
C34_ResumedPathRunsEachNodeOnce ==
    (call.fn = "from_json" /\ call.done /\ call.loaded.ok) =>
        LET flow == call.loaded.flow
            chain == ResumeChain(call.runs, NoNodeId, Cardinality(DOMAIN flow.nodes_by_id))
            steps == StepsOf(chain)
        IN  /\ steps # <<>> => steps[1].node = flow.start_node
            /\ \A i \in DOMAIN steps : i > 1 => steps[i].node = steps[i - 1].next
            /\ \A i, j \in DOMAIN steps : steps[i].node = steps[j].node => i = j
            /\ chain[Len(chain)].sent = <<>>
            /\ \A k \in DOMAIN chain : k > 1 =>
                    LET before == chain[k - 1].path[Len(chain[k - 1].path)]
                    IN  /\ flow.nodes_by_id[before.node].kind = "Sleep"
                        /\ chain[k].node_id = SomeNodeId(before.next)
                        /\ chain[k].path # <<>> => chain[k].path[1].node = before.next
                        /\ chain[k].path = <<>> =>
                                flow.nodes_by_id[before.next].kind = "End"

\* C34 witness: an accepted flow whose first execution runs two nodes up to
\* a sleep node, whose first resumed execution runs the node after it and
\* stops at a second sleep node, and whose second resumed execution starts
\* at an end node.
C34_Witness ==
    /\ call.fn = "from_json" /\ call.done /\ call.loaded.ok
    /\ LET flow == call.loaded.flow
           chain == ResumeChain(call.runs, NoNodeId, Cardinality(DOMAIN flow.nodes_by_id))
       IN  /\ Len(chain) = 3
           /\ Len(chain[1].path) >= 2
           /\ Len(chain[2].path) = 2
           /\ chain[2].path[1].node = chain[1].sent[1].node_id
           /\ flow.nodes_by_id[chain[2].path[1].node].kind = "Action"
           /\ chain[3].path = <<>> /\ chain[3].result = "Ok"

\* The scheduler rejects the command: it names a flow id that is not in the
\* registry, or it is a Schedule for a flow without a schedule.
RejectedCommand(command) ==
    \/ command.flow_id \notin FlowIds
    \/ command.type = "Schedule" /\ FlowById(command.flow_id).schedule = ""

\* C35: the scheduler keeps consuming commands after a command it rejects:
\* when it takes a Schedule or a ScheduleOnce that names a flow id that is
\* not in the registry, or a Schedule for a flow without a schedule, it is
\* still running afterwards, so that later commands are processed.
C35_RejectedCommandKeepsScheduler ==
    [][(/\ scheduler = "running"
        /\ schedulerQueue # <<>>
        /\ schedulerQueue' = Tail(schedulerQueue)
        /\ RejectedCommand(Head(schedulerQueue).command))
            => scheduler' = "running"]_vars

\* A step of the scheduler and its subtasks, for C36. When the scheduler
\* takes a ScheduleOnce for a flow of the registry it spawns one subtask
\* for that flow and node, with a number no subtask had before; an
\* execution is resumed only by a subtask that was asleep, for its flow at
\* its node, and that subtask is gone afterwards; no other step adds or
\* removes a subtask.
ResumeStep ==
    LET accepted ==
            /\ scheduler = "running"
            /\ schedulerQueue # <<>>
            /\ schedulerQueue' = Tail(schedulerQueue)
            /\ Head(schedulerQueue).command.type = "ScheduleOnce"
            /\ Head(schedulerQueue).command.flow_id \in FlowIds
        resumed == lastResume'.count # lastResume.count
        command == Head(schedulerQueue).command
        n == Len(timers)
    IN  /\ accepted =>
            /\ Len(timers') = n + 1
            /\ SubSeq(timers', 1, n) = timers
            /\ timers'[n + 1].flow_id = command.flow_id
            /\ timers'[n + 1].node_id = command.node_id
            /\ timers'[n + 1].seq > lastResume.timer.seq
            /\ \A i \in DOMAIN timers : timers'[n + 1].seq > timers[i].seq
            /\ ~resumed
        /\ resumed =>
            /\ lastResume'.count = lastResume.count + 1
            /\ \E i \in DOMAIN timers :
                    /\ lastResume'.timer = timers[i]
                    /\ Len(timers') = n - 1
                    /\ \A k \in DOMAIN timers' :
                            timers'[k] = timers[IF k < i THEN k ELSE k + 1]
                    /\ \A k \in DOMAIN timers' : timers'[k].seq # timers[i].seq
                    /\ lastResume'.exec.flow_id = timers[i].flow_id
                    /\ lastResume'.exec.node_id = SomeNodeId(timers[i].node_id)
        /\ (~accepted /\ ~resumed) => timers' = timers

\* C36: each ScheduleOnce command the scheduler accepts leads to exactly one
\* resumed execution of the named flow at the named node: every step is a
\* ResumeStep, so no subtask resumes twice, and under fair scheduling the
\* subtask of every number that is asleep eventually resumes its flow.
C36_AcceptedScheduleOnceResumesOnce ==
    /\ [][ResumeStep]_vars
    /\ \A n \in 1..MaxCommands :
            (\E i \in DOMAIN timers : timers[i].seq = n)
                ~> (lastResume.valid /\ lastResume.timer.seq = n)

\* C36 witness: the scheduler has accepted two ScheduleOnce commands and
\* both subtasks have resumed their flow, the second one last.
C36_Witness ==
    /\ lastResume.valid
    /\ lastResume.count = 2
    /\ lastResume.timer.seq = 2
    /\ lastResume.exec.node_id = SomeNodeId(lastResume.timer.node_id)
    /\ timers = <<>>

\* C37: all flows of one batch of the watcher evaluate their triggers and
\* conditions against the snapshot the watcher borrowed for the batch, and
\* the dispatch of the batch looks the devices up in that same snapshot,
\* whatever the store does while the batch runs: after a batch, its reports
\* and its commands are those of the devices as they were borrowed.
C37_BatchReadsOneSnapshot ==
    (watcher.pc = "idle" /\ watcher.runs >= 1) =>
        /\ \E order \in Permutations(DOMAIN ListenerFlows) :
                watcher.results =
                    ExecuteFlows(ListenerFlows, FrozenSnapshot(watcher.held), order).results
        /\ watcher.dispatched =
                DispatchCommands(FrozenSnapshot(watcher.held), watcher.merged)

\* C38: in every flow from_json builds, the node index holds the node of
\* every link, every node other than an End node has at least one link, and
\* the node a ScheduleOnce of an execution names is in the index, so that
\* the resumed execution does not fail with MissingProvidedStartNode.
C38_SleepTargetsResolve ==
    (call.fn = "from_json" /\ call.done /\ call.loaded.ok) =>
        LET flow == call.loaded.flow
            ids == DOMAIN flow.nodes_by_id
        IN  /\ flow.start_node \in ids
            /\ \A id \in ids : \A i \in DOMAIN flow.nodes_by_id[id].outgoing_nodes :
                    flow.nodes_by_id[id].outgoing_nodes[i].node \in ids
            /\ \A id \in ids :
                    flow.nodes_by_id[id].kind # "End" =>
                        flow.nodes_by_id[id].outgoing_nodes # <<>>
            /\ \A start \in DOMAIN call.runs :
                    call.runs[start].sent # <<>> =>
                        /\ call.runs[start].sent[1].node_id \in ids
                        /\ call.runs[SomeNodeId(call.runs[start].sent[1].node_id)].error
                                # "MissingProvidedStartNode"

\* Length of the JSON arrays of weekdays a flow file gives for a schedule.
MaxWeekdayArray == 2

\* The JSON values a flow file may give for the weekdays of a schedule.
WeekdayConditionJson ==
    LET days == {WeekdayAll[i] : i \in DOMAIN WeekdayAll}
    IN  {[array |-> FALSE, items |-> words] :
            words \in {<<"weekdays">>, <<"weekend">>} \cup {<<day>> : day \in days}
                      \cup {<<start, end>> : start \in days, end \in days}}
        \cup {[array |-> TRUE, items |-> items] :
                items \in UNION {[1..n -> days] : n \in 0..MaxWeekdayArray}}

\* C39: for every WeekdayCondition the flow loader produces, a Set from an
\* empty array included, SunEventIterator::next returns a datetime, and it
\* advances over at most seven days to find it.
C39_SunEventWithinSevenDays ==
    (/\ call.fn = "sun_events"
     /\ \E json \in WeekdayConditionJson :
            DeserializeWeekdayCondition(json) = call.input[1].when) =>
        LET upcoming == call.output.upcoming
        IN  /\ call.output.outcome = "Some"
            /\ upcoming # <<>> => upcoming[1].date < call.input[2].day + Len(WeekdayAll)
            /\ \A k \in DOMAIN upcoming :
                    k > 1 => upcoming[k].date <= upcoming[k - 1].date + Len(WeekdayAll)

\* C40: under fair scheduling, once the store stops publishing, the watcher
\* eventually runs the reactive flows against the last published snapshot:
\* whenever the channel holds publication v, later either a newer one is
\* published or the watcher has completed a run on the value it borrowed
\* at version v, however many publications its wake skipped.
C40_LastPublishedSnapshotIsProcessed ==
    \A v \in 1..MaxWatchEvents :
        (notifier.version = v)
            ~> (\/ notifier.version # v
                \/ /\ watcher.pc = "idle"
                   /\ watcher.runs >= 1
                   /\ watcher.borrowed_version = v
                   /\ watcher.snapshot = notifier.value)

\* C40 witness: the store has published twice before the watcher woke, and
\* the watcher has completed one run, on the second publication.
C40_Witness ==
    /\ notifier.version = 2
    /\ watcher.pc = "idle"
    /\ watcher.runs = 1
    /\ watcher.coalesced = 1
    /\ watcher.borrowed_version = 2

====
